---- MODULE Spec2Model ----
(***************************************************************************)
(* A model of the ongaku-frontend track cache (src/lib/cache.ts) and of    *)
(* the ApiService facade that serves queries through it                    *)
(* (src/lib/types.ts, class ApiService).                                    *)
(*                                                                         *)
(* The specifications share the variables:                                 *)
(*   SpecStore  the TrackCache operations applied one after the other      *)
(*   SpecPage   the pagination arithmetic of the cache-mode queries        *)
(*   SpecValues getUniqueValues on stored values                           *)
(*   SpecFilter getTracksByFilter on a store and a filter set              *)
(*   Spec       the asynchronous ApiService calls, interleaved at their    *)
(*              await points; SpecAnyStore and SpecCatalogs are the same   *)
(*              calls on other initial stores and remote libraries         *)
(*   SpecLists  the calls that list artists, albums and genres             *)
(*   SpecFetchAll, SpecSyncFetch  the page loop of getAllTracksFromServer, *)
(*              alone and within a sync against a changing library         *)
(*   SpecScrobble  the playback events and the scrobbling hook             *)
(*   SpecView   the library page: searches, filters and the responses of   *)
(*              its calls, which settle in any order                       *)
(*   SpecQueue  the player's queue: audioPlayerReducer under the functions *)
(*              of AudioPlayerProvider and their delayed play(track)       *)
(*   SpecAudio  the audio element: loads, play() promises, their aborts    *)
(*              and the retries                                            *)
(***************************************************************************)
EXTENDS Integers, Sequences, FiniteSets, TLC

(***************************************************************************)
(* Strings.  A JavaScript string is modelled as a sequence of one-character*)
(* strings, so that toLowerCase() and includes() are computed.             *)
(***************************************************************************)
S_Queen == <<"Q", "u", "e", "e", "n">>
S_queen == <<"q", "u", "e", "e", "n">>
S_Bohe == <<"B", "o", "h", "e">>
S_Opera == <<"O", "p", "e", "r", "a">>
S_Rock == <<"R", "o", "c", "k">>
S_Abba == <<"A", "B", "B", "A">>
S_Jazz == <<"J", "a", "z", "z">>
S_Empty == <<>>

\* String.prototype.toLowerCase, on the letters the model uses.
ToLowerChar(c) ==
    CASE c = "A" -> "a"
      [] c = "B" -> "b"
      [] c = "J" -> "j"
      [] c = "O" -> "o"
      [] c = "Q" -> "q"
      [] c = "R" -> "r"
      [] OTHER -> c

ToLowerCase(s) == [i \in 1..Len(s) |-> ToLowerChar(s[i])]

\* String.prototype.includes: sub occurs in s at some offset.
Includes(s, sub) ==
    \E i \in 0..(Len(s) - Len(sub)) : SubSeq(s, i + 1, i + Len(sub)) = sub

(***************************************************************************)
(* Track records.  Of the Track interface the model keeps the key, the     *)
(* five string fields the cache filters and searches on, and `modified`,   *)
(* the change-detection field of the sync (an opaque timestamp, compared   *)
(* for equality only).                                                     *)
(***************************************************************************)
Track(id, title, artist, album, genre, album_artist, modified) ==
    [id |-> id, title |-> title, artist |-> artist, album |-> album,
     genre |-> genre, album_artist |-> album_artist, modified |-> modified]

T1a == Track(1, S_Bohe, S_Queen, S_Opera, S_Rock, S_Queen, 1)
T1b == Track(1, S_Bohe, S_queen, S_Opera, S_Rock, S_Queen, 2)
T1c == Track(1, S_Bohe, S_Abba, S_Opera, S_Rock, S_Queen, 1)
T2a == Track(2, S_Jazz, S_Abba, S_Empty, S_Jazz, S_Queen, 1)
T3a == Track(3, S_Rock, S_Abba, S_Abba, S_Empty, S_Abba, 1)
T4a == Track(4, S_Opera, S_queen, S_Jazz, S_Jazz, S_queen, 1)
\* No record: the value of a lookup that finds nothing.
NoTrack == Track(0, S_Empty, S_Empty, S_Empty, S_Empty, S_Empty, 0)

Pool == {T1a, T1b, T1c, T2a, T3a, T4a}
Ids == {t.id : t \in Pool}
Strings == {S_Queen, S_queen, S_Bohe, S_Opera, S_Rock, S_Abba, S_Jazz, S_Empty}

Range(s) == {s[i] : i \in 1..Len(s)}

\* The records of a set in ascending key order: the order in which an
\* IndexedDB object store (keyPath 'id') returns them.
RECURSIVE SortById(_)
SortById(S) ==
    IF S = {} THEN <<>>
    ELSE LET m == CHOOSE r \in S : \A q \in S : r.id <= q.id
         IN  <<m>> \o SortById(S \ {m})

(***************************************************************************)
(* The object store 'tracks' with its secondary indexes.  recs is the set  *)
(* of stored records; idx[f] is the set of <<value of f, key>> entries of  *)
(* index f.                                                                *)
(***************************************************************************)
StringFields == {"title", "artist", "album", "genre", "album_artist"}
IndexFields == {"artist", "album", "genre", "album_artist", "title"}
ExactIndexFields == {"artist", "album", "genre", "album_artist"}

EmptyDb == [recs |-> {}, idx |-> [f \in IndexFields |-> {}]]

\* store.put(track) that leaves the old record's index entries behind.
DbPutStaleIndex(db, t) ==
    LET old == {r \in db.recs : r.id = t.id}
    IN  [recs |-> (db.recs \ old) \cup {t},
         idx |-> [f \in IndexFields |-> db.idx[f] \cup {<<t[f], t.id>>}]]

\* store.put(track) that inserts without replacing the record of the same key.
DbPutNoReplace(db, t) ==
    [recs |-> db.recs \cup {t},
     idx |-> [f \in IndexFields |-> db.idx[f] \cup {<<t[f], t.id>>}]]

\* store.put(track) done as a delete of the old record and an add that is
\* lost when the key was taken.
DbPutDropsExisting(db, t) ==
    LET old == {r \in db.recs : r.id = t.id}
    IN  IF old # {}
        THEN [recs |-> db.recs \ old,
              idx |-> [f \in IndexFields |->
                         db.idx[f] \ {<<r[f], r.id>> : r \in old}]]
        ELSE [recs |-> db.recs \cup {t},
              idx |-> [f \in IndexFields |-> db.idx[f] \cup {<<t[f], t.id>>}]]

\* store.put(track): upsert by key; the indexes follow the record.
DbPut(db, t) ==
    LET old == {r \in db.recs : r.id = t.id}
    IN  [recs |-> (db.recs \ old) \cup {t},
         idx |-> [f \in IndexFields |->
                    (db.idx[f] \ {<<r[f], r.id>> : r \in old})
                        \cup {<<t[f], t.id>>}]]

\* store.delete(id)
DbDelete(db, id) ==
    LET old == {r \in db.recs : r.id = id}
    IN  [recs |-> db.recs \ old,
         idx |-> [f \in IndexFields |->
                    db.idx[f] \ {<<r[f], r.id>> : r \in old}]]

\* store.clear()
DbClear(db) == [recs |-> {}, idx |-> [f \in IndexFields |-> {}]]

\* TrackCache.storeTracks: one readwrite transaction, put of each track in
\* array order.
RECURSIVE StoreTracks(_, _)
StoreTracks(db, tracks) ==
    IF tracks = <<>> THEN db
    ELSE StoreTracks(DbPut(db, Head(tracks)), Tail(tracks))

\* TrackCache.removeTracks: one readwrite transaction, delete of each id.
RECURSIVE RemoveTracks(_, _)
RemoveTracks(db, ids) ==
    IF ids = <<>> THEN db
    ELSE RemoveTracks(DbDelete(db, Head(ids)), Tail(ids))

\* TrackCache.clearCache
ClearCache(db) == DbClear(db)

\* TrackCache.getAllTracks: store.getAll()
GetAllTracks(db) == SortById(db.recs)

\* TrackCache.isEmpty
IsEmpty(db) == Len(GetAllTracks(db)) = 0

\* TrackCache.getTracksByIndex: index.getAll(value), the records the index
\* entries of that value point to.
GetTracksByIndex(db, field, value) ==
    SortById({r \in db.recs : <<value, r.id>> \in db.idx[field]})

\* String(n) of a non-negative integer: its decimal digits.
DigitChar(d) ==
    CASE d = 0 -> "0" [] d = 1 -> "1" [] d = 2 -> "2" [] d = 3 -> "3"
      [] d = 4 -> "4" [] d = 5 -> "5" [] d = 6 -> "6" [] d = 7 -> "7"
      [] d = 8 -> "8" [] OTHER -> "9"

RECURSIVE NumberToString(_)
NumberToString(n) ==
    IF n < 10 THEN <<DigitChar(n)>>
    ELSE Append(NumberToString(n \div 10), DigitChar(n % 10))

\* The filter predicate that accepts a track when any one field matches.
FilterMatchesAny(t, filters) ==
    \E k \in DOMAIN filters :
        IF k \in StringFields
        THEN Includes(ToLowerCase(t[k]), ToLowerCase(filters[k]))
        ELSE NumberToString(t[k]) = filters[k]

\* The filter predicate of the full scan of getTracksByFilter: every entry
\* matches; typeof trackValue === 'string' holds for the five string
\* fields, id and modified are compared as String(trackValue) === value.
FilterMatches(t, filters) ==
    \A k \in DOMAIN filters :
        IF k \in StringFields
        THEN Includes(ToLowerCase(t[k]), ToLowerCase(filters[k]))
        ELSE NumberToString(t[k]) = filters[k]

\* TrackCache.getTracksByFilter; indexThrows says whether the index lookup,
\* when one is made, rejects.
GetTracksByFilter(db, filters, indexThrows) ==
    LET keys == DOMAIN filters
        one == CHOOSE k \in keys : TRUE
    IN  IF Cardinality(keys) = 1 /\ one \in ExactIndexFields /\ ~indexThrows
        THEN GetTracksByIndex(db, one, filters[one])
        ELSE SelectSeq(GetAllTracks(db), LAMBDA t : FilterMatches(t, filters))

\* The predicate of searchTracks with AND in place of OR.
SearchMatchesAll(t, query) ==
    LET searchTerm == ToLowerCase(query)
    IN  \A f \in StringFields : Includes(ToLowerCase(t[f]), searchTerm)

\* The predicate of TrackCache.searchTracks.
SearchMatches(t, query) ==
    LET searchTerm == ToLowerCase(query)
    IN  \/ Includes(ToLowerCase(t.title), searchTerm)
        \/ Includes(ToLowerCase(t.artist), searchTerm)
        \/ Includes(ToLowerCase(t.album), searchTerm)
        \/ Includes(ToLowerCase(t.genre), searchTerm)
        \/ Includes(ToLowerCase(t.album_artist), searchTerm)

\* TrackCache.searchTracks
SearchTracks(db, query) ==
    SelectSeq(GetAllTracks(db), LAMBDA t : SearchMatches(t, query))

(***************************************************************************)
(* The unique-value lists.  Strings are ordered as Array.prototype.sort    *)
(* orders them without a comparator: by UTF-16 code units.                 *)
(***************************************************************************)
S_Blank == <<" ", " ">>
S_AbbaLead == <<" ", "A", "B", "B", "A">>
S_AbbaTrail == <<"A", "B", "B", "A", " ">>

\* String.prototype.charCodeAt, on the characters the model uses.
CharCode(c) ==
    CASE c = " " -> 32
      [] c = "A" -> 65
      [] c = "B" -> 66
      [] c = "J" -> 74
      [] c = "O" -> 79
      [] c = "Q" -> 81
      [] c = "R" -> 82
      [] c = "a" -> 97
      [] c = "b" -> 98
      [] c = "c" -> 99
      [] c = "e" -> 101
      [] c = "h" -> 104
      [] c = "j" -> 106
      [] c = "k" -> 107
      [] c = "n" -> 110
      [] c = "o" -> 111
      [] c = "p" -> 112
      [] c = "q" -> 113
      [] c = "r" -> 114
      [] c = "u" -> 117
      [] c = "z" -> 122

IsWhiteSpace(c) == c = " "

\* String.prototype.trim
RECURSIVE TrimStart(_)
TrimStart(s) ==
    IF s # <<>> /\ IsWhiteSpace(Head(s)) THEN TrimStart(Tail(s)) ELSE s

RECURSIVE TrimEnd(_)
TrimEnd(s) ==
    IF s # <<>> /\ IsWhiteSpace(s[Len(s)])
    THEN TrimEnd(SubSeq(s, 1, Len(s) - 1)) ELSE s

Trim(s) == TrimEnd(TrimStart(s))

\* a < b as the default sort compares strings.
RECURSIVE StringLess(_, _)
StringLess(a, b) ==
    IF b = <<>> THEN FALSE
    ELSE IF a = <<>> THEN TRUE
    ELSE IF CharCode(Head(a)) # CharCode(Head(b))
         THEN CharCode(Head(a)) < CharCode(Head(b))
         ELSE StringLess(Tail(a), Tail(b))

\* Array.from(set).sort()
RECURSIVE SortStrings(_)
SortStrings(S) ==
    IF S = {} THEN <<>>
    ELSE LET m == CHOOSE x \in S : \A y \in S : y = x \/ StringLess(x, y)
         IN  <<m>> \o SortStrings(S \ {m})

\* The values put into the set with the test for a blank value left out.
UniqueValuesOfKeepBlank(tracks, field) ==
    {tracks[i][field] : i \in 1..Len(tracks)}

\* The values tracks.forEach puts into the Set: value && typeof value ===
\* 'string' && value.trim(), then values.add(value).
UniqueValuesOf(tracks, field) ==
    {tracks[i][field] : i \in {k \in 1..Len(tracks) :
                                  /\ tracks[k][field] # <<>>
                                  /\ Trim(tracks[k][field]) # <<>>}}

\* TrackCache.getUniqueValues
GetUniqueValues(db, field) ==
    SortStrings(UniqueValuesOf(GetAllTracks(db), field))

\* TrackCache.getAlbumsForArtist
GetAlbumsForArtist(db, artist) ==
    SortStrings(UniqueValuesOf(
        SelectSeq(GetAllTracks(db), LAMBDA t : t.artist = artist), "album"))

(***************************************************************************)
(* TrackCache.syncWithServer: the diff of the fetched list against the     *)
(* cached records, and its application.                                    *)
(***************************************************************************)
\* Map.has(id) of new Map(tracks.map(track => [track.id, track]))
MapHas(tracks, id) == \E i \in 1..Len(tracks) : tracks[i].id = id

\* Map.get(id) of the same map: the last entry of that key.
MapGet(tracks, id) ==
    LET hits == {i \in 1..Len(tracks) : tracks[i].id = id}
    IN  tracks[CHOOSE i \in hits : \A j \in hits : j <= i]

\* The diff that takes a cached record as updated whatever its modified value.
SyncDiffAlwaysUpdate(serverTracks, cachedTracks) ==
    [toAdd |-> SelectSeq(serverTracks,
                   LAMBDA s : ~MapHas(cachedTracks, s.id)),
     toUpdate |-> SelectSeq(serverTracks,
                   LAMBDA s : MapHas(cachedTracks, s.id)),
     toRemove |-> [i \in 1..Len(SelectSeq(cachedTracks,
                       LAMBDA c : ~MapHas(serverTracks, c.id))) |->
                   SelectSeq(cachedTracks,
                       LAMBDA c : ~MapHas(serverTracks, c.id))[i].id]]

\* The three lists syncWithServer builds.
SyncDiff(serverTracks, cachedTracks) ==
    LET stale == SelectSeq(cachedTracks,
                     LAMBDA c : ~MapHas(serverTracks, c.id))
    IN  [toAdd |-> SelectSeq(serverTracks,
                       LAMBDA s : ~MapHas(cachedTracks, s.id)),
         toUpdate |-> SelectSeq(serverTracks,
                       LAMBDA s : /\ MapHas(cachedTracks, s.id)
                                  /\ MapGet(cachedTracks, s.id).modified
                                        # s.modified),
         toRemove |-> [i \in 1..Len(stale) |-> stale[i].id]]

\* The put of syncWithServer that stores one record of the batch.
SyncPutFirstOnly(db, diff) ==
    IF Len(diff.toAdd) > 0 \/ Len(diff.toUpdate) > 0
    THEN StoreTracks(db, <<Head(diff.toAdd \o diff.toUpdate)>>)
    ELSE db

\* The put of syncWithServer that stores the additions only.
SyncPutAddsOnly(db, diff) ==
    IF Len(diff.toAdd) > 0 THEN StoreTracks(db, diff.toAdd) ELSE db

\* The put of syncWithServer: added and updated records in one transaction.
SyncPut(db, diff) ==
    IF Len(diff.toAdd) > 0 \/ Len(diff.toUpdate) > 0
    THEN StoreTracks(db, diff.toAdd \o diff.toUpdate)
    ELSE db

\* The remove that leaves the last stale id behind.
SyncRemoveAllButLast(db, diff) ==
    IF Len(diff.toRemove) > 0
    THEN RemoveTracks(db, SubSeq(diff.toRemove, 1, Len(diff.toRemove) - 1))
    ELSE db

\* The remove of syncWithServer.
SyncRemove(db, diff) ==
    IF Len(diff.toRemove) > 0 THEN RemoveTracks(db, diff.toRemove) ELSE db

\* The write transactions of a sync that calls storeTracks whatever the
\* lists hold.
SyncWritesUnconditionalPut(diff) ==
    <<[op |-> "storeTracks", tracks |-> diff.toAdd \o diff.toUpdate]>>
    \o (IF Len(diff.toRemove) > 0
        THEN <<[op |-> "removeTracks", ids |-> diff.toRemove]>>
        ELSE <<>>)

\* "Apply changes": the write transactions syncWithServer issues, in order,
\* with their arguments.
SyncWrites(diff) ==
    (IF Len(diff.toAdd) > 0 \/ Len(diff.toUpdate) > 0
     THEN <<[op |-> "storeTracks", tracks |-> diff.toAdd \o diff.toUpdate]>>
     ELSE <<>>)
    \o (IF Len(diff.toRemove) > 0
        THEN <<[op |-> "removeTracks", ids |-> diff.toRemove]>>
        ELSE <<>>)

\* The store after a sequence of write transactions.
RECURSIVE ApplyWrites(_, _)
ApplyWrites(db, writes) ==
    IF writes = <<>> THEN db
    ELSE ApplyWrites(IF Head(writes).op = "storeTracks"
                     THEN StoreTracks(db, Head(writes).tracks)
                     ELSE RemoveTracks(db, Head(writes).ids),
                     Tail(writes))

\* The counts syncWithServer returns.
SyncCounts(diff) ==
    [added |-> Len(diff.toAdd), updated |-> Len(diff.toUpdate),
     removed |-> Len(diff.toRemove)]

(***************************************************************************)
(* The pagination of a cache-mode query (getTracksWithCache and            *)
(* searchTracksWithCache apply the same statements to the list they read). *)
(***************************************************************************)
Min(a, b) == IF a <= b THEN a ELSE b
Max(a, b) == IF a >= b THEN a ELSE b

\* Array.prototype.slice(start, end): a negative argument counts from the
\* end, both are clamped to the array, and an empty range gives [].
Slice(arr, start, end) ==
    LET len == Len(arr)
        k == IF start < 0 THEN Max(len + start, 0) ELSE Min(start, len)
        final == IF end < 0 THEN Max(len + end, 0) ELSE Min(end, len)
        count == Max(final - k, 0)
    IN  [i \in 1..count |-> arr[k + i]]

\* Math.floor(a / b), for a >= 0 and b >= 1.
FloorDiv(a, b) == a \div b

\* Math.ceil(a / b), for a >= 0 and b >= 1.
CeilDiv(a, b) == IF a % b = 0 THEN a \div b ELSE (a \div b) + 1

\* The slice taken one record too far.
PaginateOffByOne(tracks, page, per_page) ==
    LET startIndex == (page - 1) * per_page
        endIndex == startIndex + per_page
    IN  [tracks |-> Slice(tracks, startIndex, endIndex + 1),
         total |-> Len(tracks),
         page |-> page,
         per_page |-> per_page,
         total_pages |-> CeilDiv(Len(tracks), per_page)]

\* The page count rounded down.
PaginateFloor(tracks, page, per_page) ==
    LET startIndex == (page - 1) * per_page
        endIndex == startIndex + per_page
    IN  [tracks |-> Slice(tracks, startIndex, endIndex),
         total |-> Len(tracks),
         page |-> page,
         per_page |-> per_page,
         total_pages |-> FloorDiv(Len(tracks), per_page)]

\* "Apply pagination to cached results" and the response built from it.
Paginate(tracks, page, per_page) ==
    LET startIndex == (page - 1) * per_page
        endIndex == startIndex + per_page
    IN  [tracks |-> Slice(tracks, startIndex, endIndex),
         total |-> Len(tracks),
         page |-> page,
         per_page |-> per_page,
         total_pages |-> CeilDiv(Len(tracks), per_page)]

(***************************************************************************)
(* State.                                                                  *)
(*   db       the IndexedDB object store with its indexes                  *)
(*   last     history: the TrackCache operation applied last, the records  *)
(*            before it, the list a sync fetched and the counts it         *)
(*            returned; for storeTracks, whether a record already stored   *)
(*            was put again (again) and a new key was put (fresh); for a   *)
(*            sync, whether it follows a sync against the same list whose  *)
(*            put succeeded and whose remove failed (retry), and the write *)
(*            transactions it issued (writes)                              *)
(*   written  history: for each key, the record put last and not deleted   *)
(*            since (NoTrack when there is none)                           *)
(*   pgIn     the list a cache-mode query read, with page and per_page     *)
(*   pgOut    the response built from it (NoResponse before)               *)
(*   server   the catalog the remote service holds                         *)
(*   pc       for each caller, the await point its ApiService call is at   *)
(*   call     for each caller, the method called and its arguments         *)
(*   loc      for each caller, the locals of the call: page and allTracks  *)
(*            of getAllTracksFromServer, the lists of syncWithServer       *)
(*   res      for each caller, how the promise of the call settled         *)
(*   obs      history, for each caller's call: the getAllTracksFromServer  *)
(*            invocations, remote requests, store reads and store writes   *)
(*            it made, whether a store operation threw or a request failed *)
(*            in it, whether the store was empty when it was issued, and   *)
(*            whether it is the first cache-mode query issued after a      *)
(*            rescanLibrary resolved, and for a rescanLibrary whether the  *)
(*            store was empty when it resolved; whether the store held a   *)
(*            record when its isEmpty() was answered (nonEmpty), and       *)
(*            whether a page request of its getAllTracksFromServer failed  *)
(*            (pageFail); whether tracks it had fetched were waiting to be *)
(*            written when a rescanLibrary cleared the store (preClear)    *)
(*            and whether it wrote them afterwards (staleWrite); whether   *)
(*            it is a cache-mode query issued after a population, with no  *)
(*            clear since then (afterPopulation)                           *)
(*   faults   the store and network failures injected so far               *)
(*   started  the calls issued so far                                      *)
(*   rescanned  history: a rescanLibrary has resolved and no cache-mode    *)
(*            query was issued since                                       *)
(*   populated  history: a populateCache has written the store and no      *)
(*            clearCache was committed since                               *)
(*   uv       the list getUniqueValues returned last, with its field       *)
(*   settings  the Last.fm settings (React state of LastfmProvider):       *)
(*            sessionKey and scrobblingEnabled                             *)
(*   closure  the settings of the render whose callbacks (onTrackStart,    *)
(*            onTimeUpdate) and interval are the registered ones           *)
(*   player   currentTrack and isPlaying of the audio player state         *)
(*   audio    the audio element: the track its src points to, its          *)
(*            duration (0 while the metadata is not loaded, where the      *)
(*            element reports NaN) and its currentTime, in seconds         *)
(*   scrobbleState  the ref of useScrobbling                               *)
(*   inflight  the Last.fm requests sent and not yet answered, each known  *)
(*            by its kind and the startTime of the track start it was      *)
(*            sent for                                                     *)
(*   clock    Date.now(), counted in the track starts that reset the ref;  *)
(*            each of them sends one now-playing update                    *)
(*   sends    history: the scrobble requests sent since the last           *)
(*            onTrackStart that reset scrobbleState                        *)
(*   fa       one getAllTracksFromServer call on its own: where it is      *)
(*            (pc), its locals page, hasMore, totalPages and allTracks,    *)
(*            the array it returned, and the history of its page           *)
(*            requests, their responses and its onProgress calls (events)  *)
(*   ft       the getTracksByFilter call made last: its filters, whether   *)
(*            its index lookup and its full scan threw, how its promise    *)
(*            settled and the array it resolved with                       *)
(*   lv       the library page (MusicLibrary): the tracks shown, the cache *)
(*            mode, the search text and the active filters, the            *)
(*            fetchTracks / loadAllTracks calls in flight with their       *)
(*            arguments, and as history the number of calls issued, the    *)
(*            call that set the tracks last (shownOf) and the tracks the   *)
(*            call issued last has set (latestTracks)                      *)
(*   qs       the state of audioPlayerReducer                              *)
(*   au       the audio element (src, paused, how far the load has got,    *)
(*            the pending play() promises by the code that awaits them,    *)
(*            and those rejected whose catch has yet to run), the refs of  *)
(*            AudioPlayerProvider (playingIntent, hasUserInteracted,       *)
(*            retryCount), the pending retry timeouts, each with the       *)
(*            currentTrack its retryAudioLoad closed over (timers), the    *)
(*            pending setTimeout(() => play(track), 100) calls of next and *)
(*            previous with the state of the render that made them         *)
(*            (delayed), and as history whether a play() of the current    *)
(*            source was aborted                                           *)
(***************************************************************************)
VARIABLES db, last, written, pgIn, pgOut,
          server, pc, call, loc, res, obs, faults, started, rescanned,
          populated,
          uv,
          settings, closure, player, audio, scrobbleState, inflight,
          clock, sends,
          fa, ft,
          lv, qs, au

storeVars == <<db, last, written>>
pageVars == <<pgIn, pgOut>>
apiVars == <<server, pc, call, loc, res, obs, faults, started, rescanned,
             populated>>
valueVars == <<uv>>
scrobbleVars == <<settings, closure, player, audio, scrobbleState, inflight,
                  clock, sends>>
fetchVars == <<fa>>
filterVars == <<ft>>
uiVars == <<lv, qs, au>>
vars == <<db, last, written, pgIn, pgOut,
          server, pc, call, loc, res, obs, faults, started, rescanned,
          populated,
          uv,
          settings, closure, player, audio, scrobbleState, inflight,
          clock, sends,
          fa, ft,
          lv, qs, au>>

NoOp == [op |-> "none"]
NoResponse == [tracks |-> <<>>, total |-> -1, page |-> 0, per_page |-> 0,
               total_pages |-> -1]

Callers == {1, 2}

\* The catalog of the remote service.
Catalog == <<T1a, T2a, T3a>>

NoCall == [op |-> "none", useCache |-> FALSE, params |-> <<>>]
NoLoc == [page |-> 0, allTracks |-> <<>>,
          diff |-> [toAdd |-> <<>>, toUpdate |-> <<>>, toRemove |-> <<>>]]
NoResult == [kind |-> "none"]
Rejected == [kind |-> "rejected"]
NoObs == [fetchAll |-> 0, remote |-> 0, reads |-> 0, writes |-> 0,
          threw |-> FALSE, netFail |-> FALSE, onEmpty |-> FALSE,
          afterRescan |-> FALSE, emptyAfter |-> FALSE,
          nonEmpty |-> FALSE, pageFail |-> FALSE,
          preClear |-> FALSE, staleWrite |-> FALSE,
          afterPopulation |-> FALSE]

\* The parts of the state a specification does not use stay as they are here.
StoreIdle == db = EmptyDb /\ last = NoOp /\ written = [i \in Ids |-> NoTrack]
PageIdle == pgIn = [tracks |-> <<>>, page |-> 1, per_page |-> 1]
               /\ pgOut = NoResponse
NoValues == [field |-> "none", values |-> <<>>]
ValuesIdle == uv = NoValues

NoSession == "null"
InitialSettings == [sessionKey |-> NoSession, scrobblingEnabled |-> TRUE]
InitialScrobbleState ==
    [track |-> 0, startTime |-> 0, hasScrobbled |-> FALSE,
     hasUpdatedNowPlaying |-> FALSE]
ScrobbleIdle ==
    /\ settings = InitialSettings
    /\ closure = InitialSettings
    /\ player = [currentTrack |-> 0, isPlaying |-> FALSE]
    /\ audio = [src |-> 0, duration |-> 0, currentTime |-> 0]
    /\ scrobbleState = InitialScrobbleState
    /\ inflight = {}
    /\ clock = 0
    /\ sends = 0

\* getAllTracksFromServer entered: allTracks = [], page = 1, hasMore = true,
\* totalPages = 1.
FetchAllEntered ==
    [pc |-> "while", page |-> 1, hasMore |-> TRUE, totalPages |-> 1,
     allTracks |-> <<>>, returned |-> <<>>, events |-> <<>>]
FetchIdle == fa = FetchAllEntered

NoFilterCall ==
    [filters |-> <<>>, indexThrows |-> FALSE, scanThrows |-> FALSE,
     kind |-> "none", tracks |-> <<>>]
FilterIdle == ft = NoFilterCall

\* MusicLibrary (page.tsx) as first rendered: no tracks, cache mode, no
\* search text and no filter; no call issued yet.
InitialView ==
    [tracks |-> <<>>, useCache |-> TRUE, searchQuery |-> <<>>,
     activeFilters |-> <<>>, calls |-> {}, issued |-> 0, shownOf |-> 0,
     latestTracks |-> <<>>]
ViewIdle == lv = InitialView

\* initialState of the audio player reducer; a track is known by its id,
\* 0 is null.
initialState ==
    [currentTrack |-> 0, isPlaying |-> FALSE, queue |-> <<>>,
     currentIndex |-> -1, repeat |-> "none", shuffle |-> FALSE,
     error |-> "null", libraryTracks |-> <<>>, libraryIndex |-> -1]
QueueIdle == qs = initialState

\* The audio element and the refs of AudioPlayerProvider after the first
\* render.
InitialAudio ==
    [src |-> 0, paused |-> TRUE, load |-> "none", play |-> <<>>,
     rejected |-> <<>>, playingIntent |-> FALSE,
     hasUserInteracted |-> FALSE, retryCount |-> 0, timers |-> {},
     delayed |-> {}, aborted |-> FALSE]
AudioIdle == au = InitialAudio
UiIdle == ViewIdle /\ QueueIdle /\ AudioIdle

ApiIdle ==
    /\ server = Catalog
    /\ pc = [p \in Callers |-> "idle"]
    /\ call = [p \in Callers |-> NoCall]
    /\ loc = [p \in Callers |-> NoLoc]
    /\ res = [p \in Callers |-> NoResult]
    /\ obs = [p \in Callers |-> NoObs]
    /\ faults = 0
    /\ started = 0
    /\ rescanned = FALSE
    /\ populated = FALSE

(***************************************************************************)
(* SpecStore: the TrackCache operations, each applied as a whole.          *)
(***************************************************************************)
MaxBatch == 2

\* The arrays handed to storeTracks: up to MaxBatch records, keys may repeat.
Batches == UNION {[1..n -> Pool] : n \in 1..MaxBatch}

\* The arrays handed to removeTracks.
IdLists == {<<i>> : i \in Ids} \cup {<<i, j>> : i, j \in Ids}

\* A catalog snapshot: records of distinct keys.
UniqueIds(S) == \A r, q \in S : r.id = q.id => r = q
ServerLists == {SortById(S) : S \in {X \in SUBSET Pool : UniqueIds(X)}}

\* The record of key i that a put of the array leaves: its last occurrence.
LastPut(tracks, i, otherwise) ==
    LET hits == {k \in 1..Len(tracks) : tracks[k].id = i}
    IN  IF hits = {} THEN otherwise
        ELSE tracks[CHOOSE k \in hits : \A j \in hits : j <= k]

InitStore ==
    /\ db = EmptyDb
    /\ last = NoOp
    /\ written = [i \in Ids |-> NoTrack]
    /\ PageIdle
    /\ ApiIdle
    /\ ValuesIdle
    /\ ScrobbleIdle
    /\ FetchIdle
    /\ FilterIdle
    /\ UiIdle

DoStoreTracks ==
    \E tracks \in Batches :
        /\ db' = StoreTracks(db, tracks)
        /\ last' = [op |-> "storeTracks", before |-> db.recs,
                    again |-> \E k \in 1..Len(tracks) : tracks[k] \in db.recs,
                    fresh |-> \E k \in 1..Len(tracks) :
                                 \A r \in db.recs : r.id # tracks[k].id]
        /\ written' = [i \in Ids |-> LastPut(tracks, i, written[i])]

DoRemoveTracks ==
    \E ids \in IdLists :
        /\ db' = RemoveTracks(db, ids)
        /\ last' = [op |-> "removeTracks", before |-> db.recs]
        /\ written' = [i \in Ids |->
                          IF i \in Range(ids) THEN NoTrack ELSE written[i]]

DoClearCache ==
    /\ db' = ClearCache(db)
    /\ last' = [op |-> "clearCache", before |-> db.recs]
    /\ written' = [i \in Ids |-> NoTrack]

\* syncWithServer run to completion with nothing interleaved: the fetch,
\* the read of the cache, the put and the remove.
DoSyncWithServer ==
    \E serverTracks \in ServerLists :
        LET diff == SyncDiff(serverTracks, GetAllTracks(db))
        IN  /\ db' = SyncRemove(SyncPut(db, diff), diff)
            /\ last' = [op |-> "syncWithServer", server |-> serverTracks,
                        before |-> db.recs, counts |-> SyncCounts(diff),
                        writes |-> SyncWrites(diff),
                        retry |-> /\ last.op = "syncRemoveFailed"
                                  /\ last.server = serverTracks
                                  /\ last.put,
                        repeat |-> /\ last.op = "syncWithServer"
                                   /\ last.server = serverTracks]
            /\ written' = [i \in Ids |->
                              IF i \in Range(diff.toRemove) THEN NoTrack
                              ELSE LastPut(diff.toAdd \o diff.toUpdate, i,
                                           written[i])]

\* syncWithServer whose removeTracks rejects: the put, when there was one,
\* is committed, the delete transaction is not, and the sync rejects.
DoSyncRemoveFails ==
    \E serverTracks \in ServerLists :
        LET diff == SyncDiff(serverTracks, GetAllTracks(db))
        IN  /\ Len(diff.toRemove) > 0
            /\ db' = SyncPut(db, diff)
            /\ last' = [op |-> "syncRemoveFailed", server |-> serverTracks,
                        before |-> db.recs,
                        put |-> (Len(diff.toAdd) > 0 \/ Len(diff.toUpdate) > 0)]
            /\ written' = [i \in Ids |->
                              LastPut(diff.toAdd \o diff.toUpdate, i,
                                      written[i])]

NextStore ==
    \/ DoStoreTracks /\ UNCHANGED <<pageVars, apiVars, valueVars,
                                    scrobbleVars, fetchVars, filterVars,
                                    uiVars>>
    \/ DoSyncRemoveFails /\ UNCHANGED <<pageVars, apiVars, valueVars,
                                    scrobbleVars, fetchVars, filterVars,
                                    uiVars>>
    \/ DoRemoveTracks /\ UNCHANGED <<pageVars, apiVars, valueVars,
                                    scrobbleVars, fetchVars, filterVars,
                                    uiVars>>
    \/ DoClearCache /\ UNCHANGED <<pageVars, apiVars, valueVars,
                                    scrobbleVars, fetchVars, filterVars,
                                    uiVars>>
    \/ DoSyncWithServer /\ UNCHANGED <<pageVars, apiVars, valueVars,
                                    scrobbleVars, fetchVars, filterVars,
                                    uiVars>>

SpecStore == InitStore /\ [][NextStore]_vars

(***************************************************************************)
(* Properties of the store (checked under SpecStore).                      *)
(***************************************************************************)
IdsOf(S) == {r.id : r \in S}

\* C2: after a syncWithServer that ran with nothing interleaved, the ids in
\* the store are exactly the ids of the fetched server list, and every
\* stored record carries the modified value the server list gives its id.
C2_SyncStoreEqualsServer ==
    last.op = "syncWithServer" =>
        /\ IdsOf(db.recs) = IdsOf(Range(last.server))
        /\ \A r \in db.recs :
              \E s \in Range(last.server) :
                  s.id = r.id /\ s.modified = r.modified

\* A sync that added, updated and removed records and kept one unchanged.
C2_Witness ==
    /\ last.op = "syncWithServer"
    /\ last.counts.added > 0
    /\ last.counts.updated > 0
    /\ last.counts.removed > 0
    /\ last.before \cap db.recs # {}
    /\ db.recs = Range(last.server)

\* C3: the counts a sync returns are the number of server ids absent from
\* the cache (added), of ids in both whose modified values differ (updated)
\* and of cached ids absent from the server list (removed); an id in both
\* with equal modified is in none of them.
C3_SyncCounts ==
    last.op = "syncWithServer" =>
        LET S == Range(last.server)
            B == last.before
            changed == {i \in Ids : \E s \in S, c \in B :
                           s.id = i /\ c.id = i /\ s.modified # c.modified}
            same == {i \in Ids : \E s \in S, c \in B :
                           s.id = i /\ c.id = i /\ s.modified = c.modified}
        IN  /\ last.counts.added = Cardinality(IdsOf(S) \ IdsOf(B))
            /\ last.counts.updated = Cardinality(changed)
            /\ last.counts.removed = Cardinality(IdsOf(B) \ IdsOf(S))
            /\ last.counts.added + last.counts.updated + last.counts.removed
                   + Cardinality(same) = Cardinality(IdsOf(S) \cup IdsOf(B))

\* The sync of cache {1, 2, 3} against server {1 (newer), 2, 4}.
C3_Witness ==
    /\ last.op = "syncWithServer"
    /\ last.before = {T1a, T2a, T3a}
    /\ last.server = <<T1b, T2a, T4a>>
    /\ last.counts = [added |-> 1, updated |-> 1, removed |-> 1]

\* C7: for each of artist, album, genre and album_artist and each value, the
\* index lookup returns exactly the ids of the stored records whose field
\* equals the value, and the index holds no entry for any other id.
C7_IndexMatchesScan ==
    \A f \in ExactIndexFields, v \in Strings :
        LET scan == SelectSeq(GetAllTracks(db), LAMBDA t : t[f] = v)
        IN  /\ IdsOf(Range(GetTracksByIndex(db, f, v))) = IdsOf(Range(scan))
            /\ {e[2] : e \in {x \in db.idx[f] : x[1] = v}} = IdsOf(Range(scan))

\* A storeTracks that overwrote a record with another artist value.
C7_Witness ==
    /\ last.op = "storeTracks"
    /\ \E r \in last.before, t \in db.recs :
          r.id = t.id /\ r.artist # t.artist

\* C8: storeTracks is an upsert by id: the store never holds two records of
\* one id, and holds for each id the record that was put last (and none for
\* an id never put or deleted since).
C8_UpsertById ==
    \A i \in Ids :
        /\ Cardinality({r \in db.recs : r.id = i}) <= 1
        /\ written[i] # NoTrack => written[i] \in db.recs
        /\ written[i] = NoTrack => i \notin IdsOf(db.recs)

\* A storeTracks that put again a record already stored, with a new key in
\* the same array.
C8_Witness ==
    /\ last.op = "storeTracks"
    /\ last.again
    /\ last.fresh
    /\ Cardinality(last.before) + 1 = Cardinality(db.recs)

\* sub occurs in s: s is some prefix, then sub, then some suffix.
IsSubstring(sub, s) ==
    \E i \in 0..Len(s), j \in 1..(Len(s) + 1) :
        SubSeq(s, 1, i) \o sub \o SubSeq(s, j, Len(s)) = s

Queries ==
    {S_Queen, S_Empty, <<"O", "p">>, <<"R", "o", "c">>, <<"b", "b">>,
     <<"j", "a">>, <<"z", "z", "z">>}

\* C9: searchTracks returns exactly the stored tracks for which the
\* lower-cased query is a substring of the lower-cased title, artist, album,
\* genre or album_artist, each once.
C9_SearchAnyField ==
    \A q \in Queries :
        LET found == SearchTracks(db, q)
        IN  /\ Range(found) =
                  {t \in db.recs : \E f \in StringFields :
                      IsSubstring(ToLowerCase(q), ToLowerCase(t[f]))}
            /\ Len(found) = Cardinality(Range(found))

\* "Queen" finds track 2 by its album_artist alone and does not find track 3.
C9_Witness ==
    /\ {T2a, T3a} \subseteq db.recs
    /\ T2a \in Range(SearchTracks(db, S_Queen))
    /\ T3a \notin Range(SearchTracks(db, S_Queen))
    /\ ~Includes(ToLowerCase(T2a.artist), ToLowerCase(S_Queen))

\* C15: a sync whose put succeeded and whose remove failed leaves the
\* additions and updates stored together with the stale records; the next
\* sync against the same server list reports added = 0 and updated = 0,
\* removes exactly the stale records, and leaves the store with the ids and
\* modified values of the server list.
C15_RetryRemovesStale ==
    /\ (last.op = "syncRemoveFailed" /\ last.put) =>
           /\ IdsOf(db.recs) = IdsOf(last.before) \cup IdsOf(Range(last.server))
           /\ {r \in last.before : r.id \notin IdsOf(Range(last.server))}
                  \subseteq db.recs
           /\ \A s \in Range(last.server) :
                  \E r \in db.recs : r.id = s.id /\ r.modified = s.modified
    /\ (last.op = "syncWithServer" /\ last.retry) =>
           /\ last.counts.added = 0
           /\ last.counts.updated = 0
           /\ last.counts.removed =
                  Cardinality(IdsOf(last.before) \ IdsOf(Range(last.server)))
           /\ db.recs = {r \in last.before : r.id \in IdsOf(Range(last.server))}
           /\ IdsOf(db.recs) = IdsOf(Range(last.server))
           /\ \A r \in db.recs :
                  \E s \in Range(last.server) :
                      s.id = r.id /\ s.modified = r.modified

\* The retry of the sync of a stale store {1 (newer), 4} against the server
\* list <<1, 2, 3>>: track 4 is removed, nothing is added or updated.
C15_Witness ==
    /\ last.op = "syncWithServer"
    /\ last.retry
    /\ last.server = <<T1a, T2a, T3a>>
    /\ last.before = {T1a, T2a, T3a, T4a}
    /\ last.counts = [added |-> 0, updated |-> 0, removed |-> 1]
    /\ db.recs = {T1a, T2a, T3a}

\* C21: the storeTracks transaction of a sync holds only server records
\* whose id was not cached or whose modified value differs from the cached
\* one, its removeTracks transaction only cached ids absent from the server
\* list; a cached record whose id is on the server with an equal modified
\* value is in no transaction and is still stored; a sync with nothing to
\* add, update or remove issues no write transaction; and the store after
\* the sync is the store before it with these transactions applied.
C21_SyncMinimalWrites ==
    last.op = "syncWithServer" =>
        LET cached == last.before
            serverTracks == last.server
            puts == {w \in Range(last.writes) : w.op = "storeTracks"}
            removes == {w \in Range(last.writes) : w.op = "removeTracks"}
            same == {r \in cached :
                        \E t \in Range(serverTracks) :
                            t.id = r.id /\ t.modified = r.modified}
        IN  /\ \A w \in puts : \A t \in Range(w.tracks) :
                  /\ t \in Range(serverTracks)
                  /\ \A r \in cached :
                        r.id = t.id => r.modified # t.modified
            /\ \A w \in removes : \A id \in Range(w.ids) :
                  /\ id \in IdsOf(cached)
                  /\ id \notin IdsOf(Range(serverTracks))
            /\ \A r \in same :
                  /\ r \in db.recs
                  /\ \A w \in puts : r.id \notin IdsOf(Range(w.tracks))
                  /\ \A w \in removes : r.id \notin Range(w.ids)
            /\ \A w \in puts : w.tracks # <<>>
            /\ \A w \in removes : w.ids # <<>>
            /\ (last.counts = [added |-> 0, updated |-> 0, removed |-> 0])
                  => last.writes = <<>>
            /\ db = ApplyWrites(StoreTracks(EmptyDb, SortById(cached)),
                                last.writes)

\* A sync that put and removed records and left alone a cached record whose
\* modified value equals the server's while its other fields differ.
C21_Witness ==
    /\ last.op = "syncWithServer"
    /\ Len(last.writes) = 2
    /\ \E r \in last.before \cap db.recs :
          /\ r \notin Range(last.server)
          /\ r.id \in IdsOf(Range(last.server))

\* A sync of a stored catalog against the same list: no transaction.
C21_QuietWitness ==
    /\ last.op = "syncWithServer"
    /\ last.before # {}
    /\ last.writes = <<>>

\* C29: a syncWithServer that directly follows a completed syncWithServer
\* against the same server list reports added = 0, updated = 0 and
\* removed = 0, issues no write and leaves the store as it found it.
C29_SyncIdempotent ==
    (last.op = "syncWithServer" /\ last.repeat)
    => /\ last.counts = [added |-> 0, updated |-> 0, removed |-> 0]
       /\ last.writes = <<>>
       /\ db.recs = last.before

\* A second sync against a list of two tracks, on the store the first one
\* left.
C29_Witness ==
    /\ last.op = "syncWithServer"
    /\ last.repeat
    /\ Len(last.server) = 2
    /\ db.recs = Range(last.server)

C13_ExactWhenIndexAnswers ==
    \A f \in ExactIndexFields, v \in Strings :
        Range(GetTracksByFilter(db, [k \in {f} |-> v], FALSE))
            = {t \in db.recs : t[f] = v}

(***************************************************************************)
(* SpecPage: the pagination of one cache-mode query, for every list of up  *)
(* to MaxTotal records, page in 1..MaxPage and per_page in 1..MaxPerPage.  *)
(***************************************************************************)
MaxTotal == 6
MaxPage == 4
MaxPerPage == 4

\* The list read from the store: n records, each told apart by its key.
ResultList(n) == [i \in 1..n |-> [id |-> i]]

InitPage ==
    /\ StoreIdle
    /\ ApiIdle
    /\ ValuesIdle
    /\ ScrobbleIdle
    /\ FetchIdle
    /\ FilterIdle
    /\ UiIdle
    /\ pgIn \in {[tracks |-> ResultList(n), page |-> pg, per_page |-> pp] :
                    n \in 0..MaxTotal, pg \in 1..MaxPage, pp \in 1..MaxPerPage}
    /\ pgOut = NoResponse

DoPaginate ==
    /\ pgOut = NoResponse
    /\ pgOut' = Paginate(pgIn.tracks, pgIn.page, pgIn.per_page)
    /\ UNCHANGED <<pgIn, storeVars, apiVars, valueVars, scrobbleVars,
                   fetchVars, filterVars, uiVars>>

NextPage == DoPaginate

SpecPage == InitPage /\ [][NextPage]_vars

\* C6: for page >= 1 and per_page >= 1 the response holds exactly the
\* records at offsets [(page-1)*per_page, min(page*per_page, total)) of the
\* list, total is the length of the list, total_pages is ceil(total /
\* per_page), and a page beyond total_pages gives an empty list.
C6_PageSlice ==
    pgOut # NoResponse =>
        LET total == Len(pgIn.tracks)
            lo == (pgIn.page - 1) * pgIn.per_page
            hi == Min(pgIn.page * pgIn.per_page, total)
        IN  /\ Len(pgOut.tracks) = Max(hi - lo, 0)
            /\ \A k \in 1..Len(pgOut.tracks) :
                  pgOut.tracks[k] = pgIn.tracks[lo + k]
            /\ pgOut.total = total
            /\ pgOut.total_pages * pgIn.per_page >= total
            /\ (pgOut.total_pages - 1) * pgIn.per_page < total
            /\ pgOut.total_pages >= 0
            /\ pgIn.page > pgOut.total_pages => pgOut.tracks = <<>>

\* The last page of a list that does not fill it.
C6_Witness ==
    /\ pgOut # NoResponse
    /\ pgIn.page > 1
    /\ pgIn.page = pgOut.total_pages
    /\ Len(pgOut.tracks) > 0
    /\ Len(pgOut.tracks) < pgIn.per_page

(***************************************************************************)
(* SpecValues: getUniqueValues applied to every store built from a pool of *)
(* tracks whose fields carry surrounding white space, blanks and values    *)
(* that differ in case.                                                    *)
(***************************************************************************)
V1 == Track(1, S_Bohe, S_Abba, S_Opera, S_Rock, S_Abba, 1)
V2 == Track(2, S_Bohe, S_AbbaLead, S_Opera, S_Blank, S_Abba, 1)
V3 == Track(3, S_Rock, S_AbbaTrail, S_Empty, S_Rock, S_Queen, 1)
V4 == Track(4, S_Jazz, S_Blank, S_Jazz, S_Jazz, S_Blank, 1)
V5 == Track(5, S_Jazz, S_Queen, S_Blank, S_Empty, S_Empty, 1)
V6 == Track(6, S_Opera, S_queen, S_Opera, S_Jazz, S_Queen, 1)
ValuePool == {V1, V2, V3, V4, V5, V6}

InitValues ==
    /\ db \in {StoreTracks(EmptyDb, SortById(S)) : S \in SUBSET ValuePool}
    /\ last = NoOp
    /\ written = [i \in Ids |-> NoTrack]
    /\ PageIdle
    /\ ApiIdle
    /\ ValuesIdle
    /\ ScrobbleIdle
    /\ FetchIdle
    /\ FilterIdle
    /\ UiIdle

DoGetUniqueValues ==
    /\ \E field \in StringFields :
          uv' = [field |-> field, values |-> GetUniqueValues(db, field)]
    /\ UNCHANGED <<storeVars, pageVars, apiVars, scrobbleVars, fetchVars,
                   filterVars, uiVars>>

NextValues == DoGetUniqueValues

SpecValues == InitValues /\ [][NextValues]_vars

\* a comes before b in the order of their UTF-16 code units: at the first
\* position where they differ a has the smaller unit, or a ends there.
LexBefore(a, b) ==
    \E k \in 1..(Len(b)) :
        /\ SubSeq(a, 1, Min(k - 1, Len(a))) = SubSeq(b, 1, k - 1)
        /\ \/ Len(a) = k - 1
           \/ Len(a) >= k /\ CharCode(a[k]) < CharCode(b[k])

\* C16 as claimed: getUniqueValues returns, without duplicates and in
\* ascending order, exactly the trimmed non-empty values of the field, so
\* that values differing only in surrounding white space give one entry.
C16_UniqueValuesTrimmed ==
    uv.field # "none" =>
        /\ Range(uv.values) =
              {Trim(t[uv.field]) : t \in db.recs} \ {<<>>}
        /\ \A i, j \in 1..Len(uv.values) :
              i < j => LexBefore(uv.values[i], uv.values[j])

\* C16 amended: getUniqueValues returns, without duplicates and in ascending
\* code-unit order, exactly the stored values of the field that are not
\* empty after trimming, each as it is stored; a blank value never appears.
C16_UniqueValuesAsStored ==
    uv.field # "none" =>
        /\ Range(uv.values) =
              {t[uv.field] : t \in db.recs} \ {v \in Strings \cup
                  {S_Blank, S_AbbaLead, S_AbbaTrail} : Trim(v) = <<>>}
        /\ \A i, j \in 1..Len(uv.values) :
              i < j => LexBefore(uv.values[i], uv.values[j])
        /\ \A i \in 1..Len(uv.values) : Trim(uv.values[i]) # <<>>

\* The artists of a store that holds "ABBA", " ABBA", "ABBA " and a blank
\* artist: three entries, the blank left out.
C16_Witness ==
    /\ uv.field = "artist"
    /\ {V1, V2, V3, V4} \subseteq db.recs
    /\ {S_Abba, S_AbbaLead, S_AbbaTrail} \subseteq Range(uv.values)
    /\ S_Blank \notin Range(uv.values)

(***************************************************************************)
(* Spec: the ApiService calls of two callers, interleaved at their await   *)
(* points.  Every store operation and every remote request is one step;    *)
(* each may fail, as long as fewer than MaxFaults failures were injected.  *)
(***************************************************************************)
MaxCalls == 3
MaxFaults == 2

\* const perPage = 1000 of getAllTracksFromServer
perPage == 1000

\* The largest page the remote service hands out, whatever per_page asks.
ServerMaxPerPage == 2

\* The remote service's answer to GET /tracks?page=..&per_page=.. without
\* filters: that page of its catalog.
ServerListTracks(catalog, page, per_page) ==
    Paginate(catalog, page, Min(per_page, ServerMaxPerPage))

\* The remote service's answer to a paginated list or search request, known
\* by the request it answers.
RemoteResponse(endpoint, params) ==
    [from |-> "remote", endpoint |-> endpoint, params |-> params]

\* The arguments the callers pass.
NoFilters == <<>>
ArtistAbba == [artist |-> S_Abba]
QueryParams ==
    {[page |-> 1, per_page |-> 2, filters |-> NoFilters],
     [page |-> 2, per_page |-> 1, filters |-> ArtistAbba]}
SearchParams == {[q |-> S_Queen, page |-> 1, per_page |-> 2]}

Calls ==
    {[op |-> "getTracks", useCache |-> u, params |-> a] :
        u \in BOOLEAN, a \in QueryParams}
    \cup {[op |-> "searchTracks", useCache |-> u, params |-> a] :
        u \in BOOLEAN, a \in SearchParams}
    \cup {[op |-> "syncCache", useCache |-> TRUE, params |-> <<>>],
          [op |-> "rescanLibrary", useCache |-> TRUE, params |-> <<>>]}

IsQuery(c) == c.op \in {"getTracks", "searchTracks"}
CacheQuery(c) == IsQuery(c) /\ c.useCache
Endpoint(c) == IF c.op = "getTracks" THEN "/tracks" ELSE "/tracks/search"

\* The await point a call that ignores useCache starts at.
FirstPcIgnoringUseCache(c) ==
    CASE IsQuery(c) -> "isEmpty"
      [] c.op = "syncCache" -> "fetch"
      [] OTHER -> "rescan"

\* The await point a call starts at.
FirstPc(c) ==
    CASE IsQuery(c) /\ ~c.useCache -> "remote"
      [] IsQuery(c) -> "isEmpty"
      [] c.op = "syncCache" -> "fetch"
      [] OTHER -> "rescan"

\* The store when the page loads: never populated, or populated from an
\* older catalog (track 1 in a later version, track 4 since deleted).
InitialStores == {EmptyDb, StoreTracks(EmptyDb, <<T1b, T4a>>)}

Init ==
    /\ db \in InitialStores
    /\ last = NoOp
    /\ written = [i \in Ids |-> NoTrack]
    /\ PageIdle
    /\ ApiIdle
    /\ ValuesIdle
    /\ ScrobbleIdle
    /\ FetchIdle
    /\ FilterIdle
    /\ UiIdle

Settle(p, r) ==
    /\ pc' = [pc EXCEPT ![p] = "done"]
    /\ res' = [res EXCEPT ![p] = r]

Fault == faults < MaxFaults /\ faults' = faults + 1
NoFault == faults' = faults

\* A caller issues a call.
Start(p) ==
    /\ pc[p] \in {"idle", "done"}
    /\ started < MaxCalls
    /\ \E c \in Calls :
        /\ call' = [call EXCEPT ![p] = c]
        /\ pc' = [pc EXCEPT ![p] = FirstPc(c)]
        /\ loc' = [loc EXCEPT ![p] =
                      IF c.op = "syncCache"
                      THEN [NoLoc EXCEPT !.page = 1] ELSE NoLoc]
        /\ obs' = [obs EXCEPT ![p] =
                      [NoObs EXCEPT
                          !.fetchAll = IF c.op = "syncCache" THEN 1 ELSE 0,
                          !.onEmpty = IsEmpty(db),
                          !.afterRescan = rescanned /\ CacheQuery(c),
                          !.afterPopulation = populated /\ CacheQuery(c)]]
        /\ rescanned' = (rescanned /\ ~CacheQuery(c))
    /\ res' = [res EXCEPT ![p] = NoResult]
    /\ started' = started + 1
    /\ UNCHANGED <<db, server, faults, populated>>

\* useCache = false: return this.getTracks(params) / this.searchTracks(params)
Remote(p) ==
    /\ pc[p] = "remote"
    /\ \/ /\ NoFault
          /\ obs' = [obs EXCEPT ![p].remote = @ + 1]
          /\ Settle(p, [kind |-> "ok", src |-> "remote",
                body |-> RemoteResponse(Endpoint(call[p]), call[p].params)])
       \/ /\ Fault
          /\ obs' = [obs EXCEPT ![p].remote = @ + 1, ![p].netFail = TRUE]
          /\ Settle(p, Rejected)
    /\ UNCHANGED <<db, server, call, loc, started, rescanned, populated>>

\* The check that populates whatever isEmpty() answers.
CheckEmptyAlwaysPopulate(p) ==
    /\ pc[p] = "isEmpty"
    /\ \/ /\ NoFault
          /\ pc' = [pc EXCEPT ![p] = "fetch"]
          /\ loc' = [loc EXCEPT ![p] = [NoLoc EXCEPT !.page = 1]]
          /\ obs' = [obs EXCEPT ![p].reads = @ + 1, ![p].fetchAll = @ + 1,
                                ![p].nonEmpty = db.recs # {}]
       \/ /\ Fault
          /\ pc' = [pc EXCEPT ![p] = "fallback"]
          /\ obs' = [obs EXCEPT ![p].reads = @ + 1, ![p].threw = TRUE]
          /\ UNCHANGED loc
    /\ UNCHANGED <<db, server, call, res, started, rescanned, populated>>

\* if (await trackCache.isEmpty()) ... populateCache starts
\* getAllTracksFromServer at page 1.
CheckEmpty(p) ==
    /\ pc[p] = "isEmpty"
    /\ \/ /\ NoFault
          /\ IsEmpty(db)
          /\ pc' = [pc EXCEPT ![p] = "fetch"]
          /\ loc' = [loc EXCEPT ![p] = [NoLoc EXCEPT !.page = 1]]
          /\ obs' = [obs EXCEPT ![p].reads = @ + 1, ![p].fetchAll = @ + 1,
                                ![p].nonEmpty = db.recs # {}]
       \/ /\ NoFault
          /\ ~IsEmpty(db)
          /\ pc' = [pc EXCEPT ![p] = "read"]
          /\ obs' = [obs EXCEPT ![p].reads = @ + 1,
                                ![p].nonEmpty = db.recs # {}]
          /\ UNCHANGED loc
       \/ /\ Fault
          /\ pc' = [pc EXCEPT ![p] = "fallback"]
          /\ obs' = [obs EXCEPT ![p].reads = @ + 1, ![p].threw = TRUE]
          /\ UNCHANGED loc
    /\ UNCHANGED <<db, server, call, res, started, rescanned, populated>>

\* The loop that, when a page request fails, hands the pages fetched so far
\* on to the caller.
FetchPageKeepsPartial(p) ==
    /\ pc[p] = "fetch"
    /\ LET response == ServerListTracks(server, loc[p].page, perPage)
           hasMore == loc[p].page < response.total_pages
       IN  \/ /\ NoFault
              /\ loc' = [loc EXCEPT
                            ![p].allTracks = @ \o response.tracks,
                            ![p].page = @ + 1]
              /\ obs' = [obs EXCEPT ![p].remote = @ + 1]
              /\ pc' = [pc EXCEPT ![p] =
                           IF hasMore THEN "fetch"
                           ELSE IF call[p].op = "syncCache"
                                THEN "syncRead" ELSE "store"]
           \/ /\ Fault
              /\ obs' = [obs EXCEPT ![p].remote = @ + 1, ![p].netFail = TRUE,
                                    ![p].pageFail = TRUE]
              /\ pc' = [pc EXCEPT ![p] =
                           IF call[p].op = "syncCache"
                           THEN "syncRead" ELSE "store"]
              /\ UNCHANGED loc
    /\ UNCHANGED <<db, server, call, res, started, rescanned, populated>>

\* One turn of the while loop of getAllTracksFromServer, for a population
\* (the caller's try block catches a failed request) or for a sync (the
\* failure rejects syncCache).
FetchPage(p) ==
    /\ pc[p] = "fetch"
    /\ LET response == ServerListTracks(server, loc[p].page, perPage)
           hasMore == loc[p].page < response.total_pages
       IN  \/ /\ NoFault
              /\ hasMore
              /\ loc' = [loc EXCEPT
                            ![p].allTracks = @ \o response.tracks,
                            ![p].page = @ + 1]
              /\ obs' = [obs EXCEPT ![p].remote = @ + 1]
              /\ UNCHANGED <<pc, res>>
           \/ /\ NoFault
              /\ ~hasMore
              /\ loc' = [loc EXCEPT
                            ![p].allTracks = @ \o response.tracks,
                            ![p].page = @ + 1]
              /\ obs' = [obs EXCEPT ![p].remote = @ + 1]
              /\ pc' = [pc EXCEPT ![p] =
                           IF call[p].op = "syncCache"
                           THEN "syncRead" ELSE "store"]
              /\ UNCHANGED res
           \/ /\ Fault
              /\ call[p].op = "syncCache"
              /\ obs' = [obs EXCEPT ![p].remote = @ + 1, ![p].netFail = TRUE,
                                    ![p].pageFail = TRUE]
              /\ Settle(p, Rejected)
              /\ UNCHANGED loc
           \/ /\ Fault
              /\ call[p].op # "syncCache"
              /\ obs' = [obs EXCEPT ![p].remote = @ + 1, ![p].netFail = TRUE,
                                    ![p].pageFail = TRUE]
              /\ pc' = [pc EXCEPT ![p] = "fallback"]
              /\ UNCHANGED <<loc, res>>
    /\ UNCHANGED <<db, server, call, started, rescanned, populated>>

\* A population whose storeTracks resolves without having put a record.
PopulateWritesNothing(p) ==
    /\ pc[p] = "store"
    /\ \/ /\ NoFault
          /\ pc' = [pc EXCEPT ![p] = "read"]
          /\ obs' = [obs EXCEPT ![p].writes = @ + 1,
                                ![p].staleWrite = obs[p].preClear]
          /\ populated' = TRUE
          /\ UNCHANGED db
       \/ /\ Fault
          /\ pc' = [pc EXCEPT ![p] = "fallback"]
          /\ obs' = [obs EXCEPT ![p].writes = @ + 1, ![p].threw = TRUE]
          /\ UNCHANGED <<db, populated>>
    /\ UNCHANGED <<server, call, loc, res, started, rescanned>>

\* populateCache: await trackCache.storeTracks(allTracks)
Populate(p) ==
    /\ pc[p] = "store"
    /\ \/ /\ NoFault
          /\ db' = StoreTracks(db, loc[p].allTracks)
          /\ pc' = [pc EXCEPT ![p] = "read"]
          /\ obs' = [obs EXCEPT ![p].writes = @ + 1,
                                ![p].staleWrite = obs[p].preClear]
          /\ populated' = TRUE
       \/ /\ Fault
          /\ pc' = [pc EXCEPT ![p] = "fallback"]
          /\ obs' = [obs EXCEPT ![p].writes = @ + 1, ![p].threw = TRUE]
          /\ UNCHANGED <<db, populated>>
    /\ UNCHANGED <<server, call, loc, res, started, rescanned>>

\* The list a cache-mode query reads: getTracksByFilter when filters were
\* given, getAllTracks otherwise; searchTracks for a search.
ReadList(c, indexThrows) ==
    IF c.op = "searchTracks" THEN SearchTracks(db, c.params.q)
    ELSE IF DOMAIN c.params.filters # {}
         THEN GetTracksByFilter(db, c.params.filters, indexThrows)
         ELSE GetAllTracks(db)

\* The read of a cache-mode query and the response built from it.  A
\* failed index lookup is caught inside getTracksByFilter; a failed scan
\* throws into the catch block of the query.
ReadCache(p) ==
    /\ pc[p] = "read"
    /\ \/ /\ NoFault
          /\ obs' = [obs EXCEPT ![p].reads = @ + 1]
          /\ Settle(p, [kind |-> "ok", src |-> "cache",
                body |-> Paginate(ReadList(call[p], FALSE),
                            call[p].params.page, call[p].params.per_page)])
       \/ /\ Fault
          /\ call[p].op = "getTracks"
          /\ DOMAIN call[p].params.filters # {}
          /\ obs' = [obs EXCEPT ![p].reads = @ + 2]
          /\ Settle(p, [kind |-> "ok", src |-> "cache",
                body |-> Paginate(ReadList(call[p], TRUE),
                            call[p].params.page, call[p].params.per_page)])
       \/ /\ Fault
          /\ obs' = [obs EXCEPT ![p].reads = @ + 1, ![p].threw = TRUE]
          /\ pc' = [pc EXCEPT ![p] = "fallback"]
          /\ UNCHANGED res
    /\ UNCHANGED <<db, server, call, loc, started, rescanned, populated>>

\* A catch block that rethrows the cache error.
FallbackRethrow(p) ==
    /\ pc[p] = "fallback"
    /\ Settle(p, Rejected)
    /\ UNCHANGED <<db, server, call, loc, obs, faults, started, rescanned,
                   populated>>

\* catch (error): return this.getTracks(params) / this.searchTracks(params)
Fallback(p) ==
    /\ pc[p] = "fallback"
    /\ \/ /\ NoFault
          /\ obs' = [obs EXCEPT ![p].remote = @ + 1]
          /\ Settle(p, [kind |-> "ok", src |-> "remote",
                body |-> RemoteResponse(Endpoint(call[p]), call[p].params)])
       \/ /\ Fault
          /\ obs' = [obs EXCEPT ![p].remote = @ + 1, ![p].netFail = TRUE]
          /\ Settle(p, Rejected)
    /\ UNCHANGED <<db, server, call, loc, started, rescanned, populated>>

\* syncWithServer: const cachedTracks = await this.getAllTracks(), and the
\* three lists built from it.
SyncRead(p) ==
    /\ pc[p] = "syncRead"
    /\ LET diff == SyncDiff(loc[p].allTracks, GetAllTracks(db))
       IN  \/ /\ NoFault
              /\ Len(diff.toAdd) > 0 \/ Len(diff.toUpdate) > 0
              /\ loc' = [loc EXCEPT ![p].diff = diff]
              /\ pc' = [pc EXCEPT ![p] = "syncPut"]
              /\ obs' = [obs EXCEPT ![p].reads = @ + 1]
              /\ UNCHANGED res
           \/ /\ NoFault
              /\ ~(Len(diff.toAdd) > 0 \/ Len(diff.toUpdate) > 0)
              /\ Len(diff.toRemove) > 0
              /\ loc' = [loc EXCEPT ![p].diff = diff]
              /\ pc' = [pc EXCEPT ![p] = "syncRemove"]
              /\ obs' = [obs EXCEPT ![p].reads = @ + 1]
              /\ UNCHANGED res
           \/ /\ NoFault
              /\ ~(Len(diff.toAdd) > 0 \/ Len(diff.toUpdate) > 0)
              /\ ~(Len(diff.toRemove) > 0)
              /\ loc' = [loc EXCEPT ![p].diff = diff]
              /\ obs' = [obs EXCEPT ![p].reads = @ + 1]
              /\ Settle(p, [kind |-> "ok", src |-> "sync",
                            body |-> SyncCounts(diff)])
           \/ /\ Fault
              /\ obs' = [obs EXCEPT ![p].reads = @ + 1, ![p].threw = TRUE]
              /\ Settle(p, Rejected)
              /\ UNCHANGED loc
    /\ UNCHANGED <<db, server, call, started, rescanned, populated>>

\* syncWithServer: await this.storeTracks([...toAdd, ...toUpdate])
SyncStore(p) ==
    /\ pc[p] = "syncPut"
    /\ \/ /\ NoFault
          /\ Len(loc[p].diff.toRemove) > 0
          /\ db' = SyncPut(db, loc[p].diff)
          /\ pc' = [pc EXCEPT ![p] = "syncRemove"]
          /\ obs' = [obs EXCEPT ![p].writes = @ + 1,
                                ![p].staleWrite = obs[p].preClear]
          /\ UNCHANGED res
       \/ /\ NoFault
          /\ ~(Len(loc[p].diff.toRemove) > 0)
          /\ db' = SyncPut(db, loc[p].diff)
          /\ obs' = [obs EXCEPT ![p].writes = @ + 1,
                                ![p].staleWrite = obs[p].preClear]
          /\ Settle(p, [kind |-> "ok", src |-> "sync",
                        body |-> SyncCounts(loc[p].diff)])
       \/ /\ Fault
          /\ obs' = [obs EXCEPT ![p].writes = @ + 1, ![p].threw = TRUE]
          /\ Settle(p, Rejected)
          /\ UNCHANGED db
    /\ UNCHANGED <<server, call, loc, started, rescanned, populated>>

\* syncWithServer: await this.removeTracks(toRemove)
SyncDelete(p) ==
    /\ pc[p] = "syncRemove"
    /\ \/ /\ NoFault
          /\ db' = SyncRemove(db, loc[p].diff)
          /\ obs' = [obs EXCEPT ![p].writes = @ + 1]
          /\ Settle(p, [kind |-> "ok", src |-> "sync",
                        body |-> SyncCounts(loc[p].diff)])
       \/ /\ Fault
          /\ obs' = [obs EXCEPT ![p].writes = @ + 1, ![p].threw = TRUE]
          /\ Settle(p, Rejected)
          /\ UNCHANGED db
    /\ UNCHANGED <<server, call, loc, started, rescanned, populated>>

\* The rescan request whose failure is ignored: the clear follows anyway.
RescanRequestClearsAnyway(p) ==
    /\ pc[p] = "rescan"
    /\ \/ /\ NoFault
          /\ obs' = [obs EXCEPT ![p].remote = @ + 1]
       \/ /\ Fault
          /\ obs' = [obs EXCEPT ![p].remote = @ + 1, ![p].netFail = TRUE]
    /\ pc' = [pc EXCEPT ![p] = "clear"]
    /\ UNCHANGED <<db, server, call, loc, res, started, rescanned, populated>>

\* rescanLibrary: await this.fetchApi('/rescan', { method: 'POST' })
RescanRequest(p) ==
    /\ pc[p] = "rescan"
    /\ \/ /\ NoFault
          /\ obs' = [obs EXCEPT ![p].remote = @ + 1]
          /\ pc' = [pc EXCEPT ![p] = "clear"]
          /\ UNCHANGED res
       \/ /\ Fault
          /\ obs' = [obs EXCEPT ![p].remote = @ + 1, ![p].netFail = TRUE]
          /\ Settle(p, Rejected)
    /\ UNCHANGED <<db, server, call, loc, started, rescanned, populated>>

\* The call of q holds tracks it fetched and has not yet written.
HoldsFetched(q) ==
    /\ pc[q] \in {"fetch", "store", "syncRead", "syncPut"}
    /\ Len(loc[q].allTracks) > 0

\* rescanLibrary: try { await this.clearCache() } catch { console.warn },
\* then return response.
RescanClear(p) ==
    /\ pc[p] = "clear"
    /\ \/ /\ NoFault
          /\ db' = ClearCache(db)
          /\ obs' = [q \in Callers |->
                        IF q = p
                        THEN [obs[p] EXCEPT !.writes = @ + 1,
                                            !.emptyAfter = IsEmpty(db')]
                        ELSE [obs[q] EXCEPT
                                 !.preClear = @ \/ HoldsFetched(q),
                                 !.afterPopulation = FALSE]]
          /\ populated' = FALSE
       \/ /\ Fault
          /\ obs' = [obs EXCEPT ![p].writes = @ + 1, ![p].threw = TRUE,
                                ![p].emptyAfter = IsEmpty(db)]
          /\ UNCHANGED <<db, populated>>
    /\ Settle(p, [kind |-> "ok", src |-> "remote",
                  body |-> RemoteResponse("/rescan", <<>>)])
    /\ rescanned' = TRUE
    /\ UNCHANGED <<server, call, loc, started>>

Next ==
    \E p \in Callers :
        \/ Start(p) /\ UNCHANGED <<last, written, pageVars, valueVars,
                               scrobbleVars, fetchVars, filterVars, uiVars>>
        \/ Remote(p) /\ UNCHANGED <<last, written, pageVars, valueVars,
                               scrobbleVars, fetchVars, filterVars, uiVars>>
        \/ CheckEmpty(p) /\ UNCHANGED <<last, written, pageVars, valueVars,
                               scrobbleVars, fetchVars, filterVars, uiVars>>
        \/ FetchPage(p) /\ UNCHANGED <<last, written, pageVars, valueVars,
                               scrobbleVars, fetchVars, filterVars, uiVars>>
        \/ Populate(p) /\ UNCHANGED <<last, written, pageVars, valueVars,
                               scrobbleVars, fetchVars, filterVars, uiVars>>
        \/ ReadCache(p) /\ UNCHANGED <<last, written, pageVars, valueVars,
                               scrobbleVars, fetchVars, filterVars, uiVars>>
        \/ Fallback(p) /\ UNCHANGED <<last, written, pageVars, valueVars,
                               scrobbleVars, fetchVars, filterVars, uiVars>>
        \/ SyncRead(p) /\ UNCHANGED <<last, written, pageVars, valueVars,
                               scrobbleVars, fetchVars, filterVars, uiVars>>
        \/ SyncStore(p) /\ UNCHANGED <<last, written, pageVars, valueVars,
                               scrobbleVars, fetchVars, filterVars, uiVars>>
        \/ SyncDelete(p) /\ UNCHANGED <<last, written, pageVars, valueVars,
                               scrobbleVars, fetchVars, filterVars, uiVars>>
        \/ RescanRequest(p) /\ UNCHANGED <<last, written, pageVars, valueVars,
                               scrobbleVars, fetchVars, filterVars, uiVars>>
        \/ RescanClear(p) /\ UNCHANGED <<last, written, pageVars, valueVars,
                               scrobbleVars, fetchVars, filterVars, uiVars>>

Spec == Init /\ [][Next]_vars

\* The same calls on a store populated earlier in any of these ways: not at
\* all, from an older catalog, with one record up to date and one deleted
\* since, or with every catalog id and one record outdated.
AnyInitialStores ==
    InitialStores
    \cup {StoreTracks(EmptyDb, <<T1a, T4a>>),
          StoreTracks(EmptyDb, <<T1b, T2a, T3a>>)}

InitAnyStore ==
    /\ db \in AnyInitialStores
    /\ last = NoOp
    /\ written = [i \in Ids |-> NoTrack]
    /\ PageIdle
    /\ ApiIdle
    /\ ValuesIdle
    /\ ScrobbleIdle
    /\ FetchIdle
    /\ FilterIdle
    /\ UiIdle

SpecAnyStore == InitAnyStore /\ [][Next]_vars

\* The same calls against a server whose library is empty or holds the
\* catalog.
InitCatalogs ==
    /\ db \in InitialStores
    /\ last = NoOp
    /\ written = [i \in Ids |-> NoTrack]
    /\ server \in {<<>>, Catalog}
    /\ pc = [p \in Callers |-> "idle"]
    /\ call = [p \in Callers |-> NoCall]
    /\ loc = [p \in Callers |-> NoLoc]
    /\ res = [p \in Callers |-> NoResult]
    /\ obs = [p \in Callers |-> NoObs]
    /\ faults = 0
    /\ started = 0
    /\ rescanned = FALSE
    /\ populated = FALSE
    /\ PageIdle
    /\ ValuesIdle
    /\ ScrobbleIdle
    /\ FetchIdle
    /\ FilterIdle
    /\ UiIdle

SpecCatalogs == InitCatalogs /\ [][Next]_vars

(***************************************************************************)
(* SpecLists: the calls that list artists, albums and genres, and the      *)
(* albums of one artist, by two callers interleaved at their await points. *)
(* They check and populate the cache as the queries do; their read is      *)
(* returned without await, and the request after the catch block is the    *)
(* one that live mode makes.                                               *)
(***************************************************************************)
ListCalls ==
    {[op |-> o, useCache |-> u, params |-> <<>>] :
        o \in {"getArtists", "getAlbums", "getGenres"}, u \in BOOLEAN}
    \cup {[op |-> "getAlbumsForArtist", useCache |-> u,
           params |-> [artist |-> S_Abba]] : u \in BOOLEAN}

\* The field whose values a list call reads from the cache.
ListField(c) ==
    CASE c.op = "getArtists" -> "artist"
      [] c.op = "getGenres" -> "genre"
      [] OTHER -> "album"

\* The request a list call makes in live mode and after a caught error.
ListEndpoint(c) ==
    CASE c.op = "getArtists" -> "/artists"
      [] c.op = "getAlbums" -> "/albums"
      [] c.op = "getGenres" -> "/genres"
      [] OTHER -> "/tracks"

ListRequestParams(c) ==
    IF c.op = "getAlbumsForArtist"
    THEN [artist |-> c.params.artist, per_page |-> 1000]
    ELSE <<>>

ListFirstPc(c) == IF c.useCache THEN "isEmpty" ELSE "remote"

InitLists ==
    /\ db \in InitialStores
    /\ last = NoOp
    /\ written = [i \in Ids |-> NoTrack]
    /\ PageIdle
    /\ ApiIdle
    /\ ValuesIdle
    /\ ScrobbleIdle
    /\ FetchIdle
    /\ FilterIdle
    /\ UiIdle

StartList(p) ==
    /\ pc[p] \in {"idle", "done"}
    /\ started < MaxCalls
    /\ \E c \in ListCalls :
        /\ call' = [call EXCEPT ![p] = c]
        /\ pc' = [pc EXCEPT ![p] = ListFirstPc(c)]
        /\ obs' = [obs EXCEPT ![p] = [NoObs EXCEPT !.onEmpty = IsEmpty(db)]]
    /\ loc' = [loc EXCEPT ![p] = NoLoc]
    /\ res' = [res EXCEPT ![p] = NoResult]
    /\ started' = started + 1
    /\ UNCHANGED <<db, server, faults, rescanned, populated>>

\* The list read from the cache.
ReadValuesList(c) ==
    IF c.op = "getAlbumsForArtist"
    THEN GetAlbumsForArtist(db, c.params.artist)
    ELSE GetUniqueValues(db, ListField(c))

\* return trackCache.getUniqueValues(..) / getAlbumsForArtist(..): the
\* promise is returned from the try block without await, so the call
\* settles as that promise settles and the catch block never sees its
\* rejection.
ReadValues(p) ==
    /\ pc[p] = "read"
    /\ \/ /\ NoFault
          /\ obs' = [obs EXCEPT ![p].reads = @ + 1]
          /\ Settle(p, [kind |-> "ok", src |-> "cache",
                        body |-> ReadValuesList(call[p])])
       \/ /\ Fault
          /\ obs' = [obs EXCEPT ![p].reads = @ + 1, ![p].threw = TRUE]
          /\ Settle(p, Rejected)
    /\ UNCHANGED <<db, server, call, loc, started, rescanned, populated>>

\* return this.fetchApi('/artists') and its likes; for getAlbumsForArtist
\* the albums folded from this.getTracks({ artist, per_page: 1000 }).
ListFetch(p) ==
    /\ pc[p] \in {"remote", "fallback"}
    /\ \/ /\ NoFault
          /\ obs' = [obs EXCEPT ![p].remote = @ + 1]
          /\ Settle(p, [kind |-> "ok", src |-> "remote",
                body |-> RemoteResponse(ListEndpoint(call[p]),
                                        ListRequestParams(call[p]))])
       \/ /\ Fault
          /\ obs' = [obs EXCEPT ![p].remote = @ + 1, ![p].netFail = TRUE]
          /\ Settle(p, Rejected)
    /\ UNCHANGED <<db, server, call, loc, started, rescanned, populated>>

NextLists ==
    \E p \in Callers :
        \/ StartList(p) /\ UNCHANGED <<last, written, pageVars, valueVars,
                               scrobbleVars, fetchVars, filterVars, uiVars>>
        \/ CheckEmpty(p) /\ UNCHANGED <<last, written, pageVars, valueVars,
                               scrobbleVars, fetchVars, filterVars, uiVars>>
        \/ FetchPage(p) /\ UNCHANGED <<last, written, pageVars, valueVars,
                               scrobbleVars, fetchVars, filterVars, uiVars>>
        \/ Populate(p) /\ UNCHANGED <<last, written, pageVars, valueVars,
                               scrobbleVars, fetchVars, filterVars, uiVars>>
        \/ ReadValues(p) /\ UNCHANGED <<last, written, pageVars, valueVars,
                               scrobbleVars, fetchVars, filterVars, uiVars>>
        \/ ListFetch(p) /\ UNCHANGED <<last, written, pageVars, valueVars,
                               scrobbleVars, fetchVars, filterVars, uiVars>>

SpecLists == InitLists /\ [][NextLists]_vars

(***************************************************************************)
(* Properties of the ApiService calls (checked under Spec).                *)
(***************************************************************************)
LiveQuery(c) == IsQuery(c) /\ ~c.useCache
Done(p) == pc[p] = "done"

\* C1: two cache-mode queries issued against an empty store, with no other
\* call and no failure, invoke getAllTracksFromServer once in total.
C1_OneFetchAll ==
    \A p, q \in Callers :
        (/\ p # q
         /\ started = 2
         /\ faults = 0
         /\ CacheQuery(call[p]) /\ CacheQuery(call[q])
         /\ obs[p].onEmpty /\ obs[q].onEmpty
         /\ Done(p) /\ Done(q))
        => obs[p].fetchAll + obs[q].fetchAll = 1

\* C4: a cache-mode getTracksWithCache or searchTracksWithCache in which a
\* store operation threw, and whose remote request did not fail, resolves
\* with the remote answer to the same request.
C4_FallbackOnCacheError ==
    \A p \in Callers :
        (Done(p) /\ CacheQuery(call[p]) /\ obs[p].threw /\ ~obs[p].netFail)
        => res[p] = [kind |-> "ok", src |-> "remote",
                     body |-> RemoteResponse(Endpoint(call[p]),
                                             call[p].params)]

\* A query whose population fetched the catalog and whose store write or
\* read then threw, answered by the remote.
C4_Witness ==
    \E p \in Callers :
        /\ Done(p)
        /\ CacheQuery(call[p])
        /\ obs[p].threw
        /\ obs[p].fetchAll = 1
        /\ obs[p].writes = 1
        /\ res[p].kind = "ok"
        /\ res[p].src = "remote"

\* C5: when rescanLibrary has resolved the store is empty, and the next
\* cache-mode query (answered from the cache, nothing failing in it) has
\* fetched the full catalog anew.
C5_RescanInvalidates ==
    \A p \in Callers :
        /\ (Done(p) /\ call[p].op = "rescanLibrary" /\ res[p].kind = "ok")
              => obs[p].emptyAfter
        /\ (Done(p) /\ obs[p].afterRescan /\ res[p].kind = "ok"
                /\ res[p].src = "cache")
              => obs[p].fetchAll = 1

\* The second half of C5 when no store operation or request ever fails.
C5_NextQueryFetchesWhenNothingFails ==
    \A p \in Callers :
        (faults = 0 /\ Done(p) /\ obs[p].afterRescan) => obs[p].fetchAll = 1

\* C10: a step of a query called with useCache = false is its one remote
\* request: it settles the call, leaves the store as it is, and the call
\* has made no store read, no store write and no getAllTracksFromServer.
C10_LiveModeBypassesStore ==
    [][\A p \in Callers :
          (LiveQuery(call[p]) /\ pc[p] \notin {"idle", "done"}
              /\ pc'[p] # pc[p])
          => /\ db' = db
             /\ pc'[p] = "done"
             /\ obs'[p].remote = 1
             /\ obs'[p].reads = 0
             /\ obs'[p].writes = 0
             /\ obs'[p].fetchAll = 0]_vars

\* A live-mode query answered while the store is empty.
C10_Witness ==
    \E p \in Callers :
        /\ Done(p)
        /\ LiveQuery(call[p])
        /\ res[p].kind = "ok"
        /\ IsEmpty(db)

\* C11: a cache-mode query whose isEmpty() was answered while the store held
\* a record, and in which no store operation threw, makes no remote request
\* and starts no population, up to and including its answer from the cache.
C11_NoRemoteWhenPopulated ==
    \A p \in Callers :
        (CacheQuery(call[p]) /\ obs[p].nonEmpty /\ ~obs[p].threw)
        => /\ obs[p].remote = 0
           /\ obs[p].fetchAll = 0
           /\ Done(p) => (res[p].kind = "ok" /\ res[p].src = "cache")

\* A query issued against the stale store of a previous visit, answered from
\* it without a request.
C11_Witness ==
    \E p \in Callers :
        /\ Done(p)
        /\ CacheQuery(call[p])
        /\ obs[p].nonEmpty
        /\ ~obs[p].threw
        /\ res[p].src = "cache"
        /\ res[p].body.total > 0

\* C14: a call in which a page request of getAllTracksFromServer failed has
\* made no store write and does not fetch again: the failed request was its
\* last page request, a population's failure is in the catch block of the
\* query, a sync's failure rejects syncCache.  When it is the only call
\* issued, the store is as it was: empty for a population, the initial
\* store for a sync.
C14_FailedFetchWritesNothing ==
    \A p \in Callers :
        obs[p].pageFail =>
            /\ obs[p].writes = 0
            /\ obs[p].fetchAll = 1
            /\ pc[p] \in {"fallback", "done"}
            /\ pc[p] = "fallback" => obs[p].remote = loc[p].page
            /\ call[p].op = "syncCache" => res[p] = Rejected
            /\ (started = 1 /\ CacheQuery(call[p])) => IsEmpty(db)
            /\ (started = 1 /\ call[p].op = "syncCache")
                   => db \in InitialStores

\* A population whose second page request failed after the first page was
\* fetched: the store is still empty.
C14_Witness ==
    \E p \in Callers :
        /\ obs[p].pageFail
        /\ CacheQuery(call[p])
        /\ loc[p].page = 2
        /\ Len(loc[p].allTracks) > 0
        /\ started = 1
        /\ IsEmpty(db)

C24_ClearOnlyAfterAcceptedRescan ==
    \A p \in Callers :
        call[p].op = "rescanLibrary" =>
            /\ (pc[p] = "clear" \/ obs[p].writes > 0)
                  => (obs[p].remote = 1 /\ ~obs[p].netFail)
            /\ (Done(p) /\ obs[p].netFail) =>
                  /\ res[p] = Rejected
                  /\ obs[p].writes = 0
                  /\ started = 1 =>
                        /\ db \in InitialStores
                        /\ IsEmpty(db) = obs[p].onEmpty

\* A rescanLibrary rejected by a failed request, the populated store kept.
C24_Witness ==
    \E p \in Callers :
        /\ call[p].op = "rescanLibrary"
        /\ Done(p)
        /\ obs[p].netFail
        /\ res[p] = Rejected
        /\ started = 1
        /\ ~IsEmpty(db)

\* No call is in flight and at least one was made.
Quiescent == started >= 1 /\ \A p \in Callers : pc[p] \in {"idle", "done"}

\* The store holds a record for every id of the server catalog.
HoldsCatalog == IdsOf(Range(server)) \subseteq IdsOf(db.recs)

\* C25: once every call has completed the store is empty or holds every
\* track id of the server catalog.
C25_NeverPartial == Quiescent => (IsEmpty(db) \/ HoldsCatalog)

\* C25 for the runs without any failure in which a syncCache resolved.
C25_NeverPartialAfterSync ==
    (/\ Quiescent
     /\ faults = 0
     /\ \E p \in Callers : call[p].op = "syncCache" /\ res[p].kind = "ok")
    => (IsEmpty(db) \/ HoldsCatalog)

\* C26: no call writes, after a rescanLibrary cleared the store, tracks it
\* had fetched before that clear.
C26_NoPreRescanWrite == \A p \in Callers : ~obs[p].staleWrite

\* The population of the call of p was written: storeTracks resolved (an
\* error counted afterwards is one of the read that follows).
Populated(p) ==
    /\ obs[p].fetchAll = 1
    /\ obs[p].writes = 1
    /\ obs[p].threw => obs[p].reads = 2

\* C20: two cache-mode queries issued against an empty store, with no other
\* call, that both fetched the catalog and both wrote it (their populations
\* overlapped): when both are done the store is the one a single population
\* of the catalog produces, with exactly one record for each catalog id.
C20_OverlappingPopulations ==
    \A p, q \in Callers :
        (/\ p # q
         /\ started = 2
         /\ CacheQuery(call[p]) /\ CacheQuery(call[q])
         /\ obs[p].onEmpty /\ obs[q].onEmpty
         /\ Populated(p) /\ Populated(q)
         /\ Done(p) /\ Done(q))
        => /\ db = StoreTracks(EmptyDb, server)
           /\ IdsOf(db.recs) = IdsOf(Range(server))
           /\ \A id \in IdsOf(Range(server)) :
                 Cardinality({r \in db.recs : r.id = id}) = 1

\* Both callers' populations fetched all pages before either wrote, both
\* wrote, and both queries are done.
C20_Witness ==
    /\ started = 2
    /\ faults = 0
    /\ \A p \in Callers :
          /\ CacheQuery(call[p])
          /\ obs[p].onEmpty
          /\ Populated(p)
          /\ obs[p].remote = 2
          /\ Done(p)
    /\ Cardinality(db.recs) = Len(server)

C12_CaughtBeforeRead ==
    \A p \in Callers :
        (Done(p) /\ call[p] \in ListCalls /\ call[p].useCache
            /\ obs[p].threw /\ ~obs[p].netFail /\ res[p] = Rejected)
        => obs[p].reads = 2

(***************************************************************************)
(* SpecScrobble: the Last.fm settings, the part of the audio player that   *)
(* drives useScrobbling (the track effect and the time-update interval of  *)
(* AudioPlayerProvider) and the hook itself.  A state change made in a     *)
(* click handler (logout, the scrobbling switch, the choice of a track) is *)
(* rendered and its effects are re-run before any other callback runs; the *)
(* session key set after the authentication request is rendered in a later *)
(* step.  Times are whole seconds.                                         *)
(***************************************************************************)
MaxStarts == 2
MaxSends == 2

\* The tracks played: a key and the length of the audio.
PlayTracks ==
    {[id |-> 1, duration_seconds |-> 20],
     [id |-> 2, duration_seconds |-> 40],
     [id |-> 3, duration_seconds |-> 600]}

DurationOf(id) == (CHOOSE t \in PlayTracks : t.id = id).duration_seconds

\* The playback positions the interval samples or the user seeks to.
Positions == {19, 20, 239, 240}

\* isAuthenticated: settings.sessionKey !== null
IsAuthenticated(s) == s.sessionKey # NoSession

\* isScrobblingEnabled: isAuthenticated && scrobblingEnabled
IsScrobblingEnabled(s) == IsAuthenticated(s) /\ s.scrobblingEnabled

\* The guard of onTrackStart and scrobbleTrack:
\* !isAuthenticated || !scrobblingEnabled || !sessionKey  =>  return
HookEnabled(s) ==
    ~(~IsAuthenticated(s) \/ ~s.scrobblingEnabled \/ s.sessionKey = NoSession)

\* checkScrobbleConditions; currentTime >= Math.min(duration * 0.5, 240) is
\* computed on the doubled values.
CheckScrobbleConditions(state, currentTime, duration) ==
    IF state.track = 0 \/ state.startTime = 0 \/ state.hasScrobbled
    THEN FALSE
    ELSE IF duration < 30 THEN FALSE
    ELSE 2 * currentTime >= Min(duration, 2 * 240)

InitScrobble ==
    /\ StoreIdle
    /\ PageIdle
    /\ ApiIdle
    /\ ValuesIdle
    /\ ScrobbleIdle
    /\ FetchIdle
    /\ FilterIdle
    /\ UiIdle

\* authenticateWithToken (or checkAuthStatus): the session key arrives after
\* an await and is set in the settings; the render follows.
Login ==
    /\ ~IsAuthenticated(settings)
    /\ settings' = [settings EXCEPT !.sessionKey = "sk"]
    /\ UNCHANGED <<closure, player, audio, scrobbleState, inflight, clock,
                   sends>>

\* The render of a state change made outside an event handler: the
\* callbacks are re-created and the effects that depend on them re-run; the
\* track effect finds audio.src unchanged and does nothing.
Render ==
    /\ closure # settings
    /\ closure' = settings
    /\ UNCHANGED <<settings, player, audio, scrobbleState, inflight, clock,
                   sends>>

\* logout
Logout ==
    /\ IsAuthenticated(settings)
    /\ settings' = InitialSettings
    /\ closure' = settings'
    /\ UNCHANGED <<player, audio, scrobbleState, inflight, clock, sends>>

\* setScrobblingEnabled(enabled) whose change reaches the registered
\* callbacks only with a later render.
SetScrobblingEnabledStaleCallbacks ==
    /\ \E enabled \in BOOLEAN :
          /\ enabled # settings.scrobblingEnabled
          /\ settings' = [settings EXCEPT !.scrobblingEnabled = enabled]
    /\ UNCHANGED <<closure, player, audio, scrobbleState, inflight, clock,
                   sends>>

\* setScrobblingEnabled(enabled)
SetScrobblingEnabled ==
    /\ \E enabled \in BOOLEAN :
          /\ enabled # settings.scrobblingEnabled
          /\ settings' = [settings EXCEPT !.scrobblingEnabled = enabled]
    /\ closure' = settings'
    /\ UNCHANGED <<player, audio, scrobbleState, inflight, clock, sends>>

\* onTrackStart(track): the ref is reset and the now-playing update sent,
\* when the guard of the rendered callback lets it through.
OnTrackStart(track) ==
    IF HookEnabled(closure')
    THEN /\ clock < MaxStarts
         /\ clock' = clock + 1
         /\ scrobbleState' = [track |-> track, startTime |-> clock + 1,
                              hasScrobbled |-> FALSE,
                              hasUpdatedNowPlaying |-> FALSE]
         /\ inflight' = inflight \cup
                {[kind |-> "nowPlaying", timestamp |-> clock + 1]}
         /\ sends' = 0
    ELSE UNCHANGED <<clock, scrobbleState, inflight, sends>>

\* play(track), next, previous, playFromQueue for another track: SET_CURRENT_
\* TRACK and SET_PLAYING, then the track effect: the audio element is
\* pointed at the new source and, if (isScrobblingEnabled), onTrackStart.
PlayTrack ==
    \E t \in PlayTracks :
        /\ t.id # player.currentTrack
        /\ player' = [currentTrack |-> t.id, isPlaying |-> TRUE]
        /\ closure' = settings
        /\ audio.src # t.id
        /\ audio' = [src |-> t.id, duration |-> 0, currentTime |-> 0]
        /\ IF IsScrobblingEnabled(closure')
           THEN OnTrackStart(t.id)
           ELSE UNCHANGED <<clock, scrobbleState, inflight, sends>>
        /\ UNCHANGED settings

\* clearQueue: CLEAR_QUEUE leaves no current track; the track effect clears
\* the source.
ClearQueue ==
    /\ player.currentTrack # 0
    /\ player' = [currentTrack |-> 0, isPlaying |-> FALSE]
    /\ closure' = settings
    /\ audio' = [src |-> 0, duration |-> 0, currentTime |-> 0]
    /\ UNCHANGED <<settings, scrobbleState, inflight, clock, sends>>

\* pause and play() of the current track: SET_PLAYING
SetPlaying ==
    /\ player.currentTrack # 0
    /\ player' = [player EXCEPT !.isPlaying = ~@]
    /\ closure' = settings
    /\ UNCHANGED <<settings, audio, scrobbleState, inflight, clock, sends>>

\* loadedmetadata: the element knows its duration.
LoadedMetadata ==
    /\ audio.src # 0
    /\ audio.duration = 0
    /\ audio' = [audio EXCEPT !.duration = DurationOf(audio.src)]
    /\ UNCHANGED <<settings, closure, player, scrobbleState, inflight,
                   clock, sends>>

\* Playback progress and seek(time): the position moves.
MoveTo ==
    /\ audio.duration > 0
    /\ \E time \in Positions :
          /\ time <= audio.duration
          /\ time # audio.currentTime
          /\ audio' = [audio EXCEPT !.currentTime = time]
    /\ UNCHANGED <<settings, closure, player, scrobbleState, inflight,
                   clock, sends>>

\* scrobbleTrack(currentTime, duration), up to the request.
ScrobbleTrack(currentTime, duration) ==
    /\ HookEnabled(closure)
    /\ scrobbleState.track # 0
    /\ scrobbleState.startTime # 0
    /\ CheckScrobbleConditions(scrobbleState, currentTime, duration)
    /\ ~scrobbleState.hasScrobbled
    /\ inflight' = inflight \cup
           {[kind |-> "scrobble", timestamp |-> scrobbleState.startTime]}

\* The interval callback while isPlaying: if (isScrobblingEnabled &&
\* duration > 0) onTimeUpdate(currentTime, duration), which calls
\* scrobbleTrack when checkScrobbleConditions holds.  A callback that sends
\* nothing changes nothing.
TimeUpdate ==
    /\ player.isPlaying
    /\ IsScrobblingEnabled(closure)
    /\ audio.duration > 0
    /\ CheckScrobbleConditions(scrobbleState, audio.currentTime,
                               audio.duration)
    /\ sends < MaxSends
    /\ ScrobbleTrack(audio.currentTime, audio.duration)
    /\ sends' = sends + 1
    /\ UNCHANGED <<settings, closure, player, audio, scrobbleState, clock>>

\* The answer to updateNowPlaying: on success the ref is marked.
NowPlayingResponse ==
    \E r \in inflight, success \in BOOLEAN :
        /\ r.kind = "nowPlaying"
        /\ inflight' = inflight \ {r}
        /\ scrobbleState' =
              IF success
              THEN [scrobbleState EXCEPT !.hasUpdatedNowPlaying = TRUE]
              ELSE scrobbleState
        /\ UNCHANGED <<settings, closure, player, audio, clock, sends>>

\* The answer to scrobbleTrack: on success the ref is marked.
ScrobbleResponse ==
    \E r \in inflight, success \in BOOLEAN :
        /\ r.kind = "scrobble"
        /\ inflight' = inflight \ {r}
        /\ scrobbleState' =
              IF success
              THEN [scrobbleState EXCEPT !.hasScrobbled = TRUE]
              ELSE scrobbleState
        /\ UNCHANGED <<settings, closure, player, audio, clock, sends>>

NextScrobble ==
    \/ Login /\ UNCHANGED <<storeVars, pageVars, apiVars, valueVars,
                       fetchVars, filterVars, uiVars>>
    \/ Render /\ UNCHANGED <<storeVars, pageVars, apiVars, valueVars,
                       fetchVars, filterVars, uiVars>>
    \/ Logout /\ UNCHANGED <<storeVars, pageVars, apiVars, valueVars,
                       fetchVars, filterVars, uiVars>>
    \/ SetScrobblingEnabled
          /\ UNCHANGED <<storeVars, pageVars, apiVars, valueVars,
                       fetchVars, filterVars, uiVars>>
    \/ PlayTrack /\ UNCHANGED <<storeVars, pageVars, apiVars, valueVars,
                       fetchVars, filterVars, uiVars>>
    \/ ClearQueue /\ UNCHANGED <<storeVars, pageVars, apiVars, valueVars,
                       fetchVars, filterVars, uiVars>>
    \/ SetPlaying /\ UNCHANGED <<storeVars, pageVars, apiVars, valueVars,
                       fetchVars, filterVars, uiVars>>
    \/ LoadedMetadata /\ UNCHANGED <<storeVars, pageVars, apiVars, valueVars,
                       fetchVars, filterVars, uiVars>>
    \/ MoveTo /\ UNCHANGED <<storeVars, pageVars, apiVars, valueVars,
                       fetchVars, filterVars, uiVars>>
    \/ TimeUpdate /\ UNCHANGED <<storeVars, pageVars, apiVars, valueVars,
                       fetchVars, filterVars, uiVars>>
    \/ NowPlayingResponse
          /\ UNCHANGED <<storeVars, pageVars, apiVars, valueVars,
                       fetchVars, filterVars, uiVars>>
    \/ ScrobbleResponse
          /\ UNCHANGED <<storeVars, pageVars, apiVars, valueVars,
                       fetchVars, filterVars, uiVars>>

SpecScrobble == InitScrobble /\ [][NextScrobble]_vars

\* C17: a scrobble request is sent for a track only if the track lasts at
\* least 30 seconds and the playback position has reached the smaller of
\* half its duration and 240 seconds.
C17_ScrobbleThreshold ==
    [][sends' = sends + 1 =>
          /\ DurationOf(scrobbleState.track) >= 30
          /\ 2 * audio.currentTime
                >= Min(DurationOf(scrobbleState.track), 2 * 240)]_vars

\* C17 for the requests sent while the track of the ref is the one loaded.
C17_ThresholdOfLoadedTrack ==
    [][(sends' = sends + 1 /\ audio.src = scrobbleState.track) =>
          /\ DurationOf(scrobbleState.track) >= 30
          /\ 2 * audio.currentTime
                >= Min(DurationOf(scrobbleState.track), 2 * 240)]_vars

\* C18: every step that sends a now-playing update (a track start that
\* resets the ref) or a scrobble request is taken while a session key is
\* set and scrobblingEnabled is true.
C18_NoRequestWhenDisabled ==
    [][(sends' = sends + 1 \/ clock' = clock + 1) =>
          /\ IsAuthenticated(settings)
          /\ settings.scrobblingEnabled]_vars

\* The switch is off while a track whose start was reported plays past its
\* threshold: the interval runs and nothing has been sent for it.
C18_Witness ==
    /\ IsAuthenticated(settings)
    /\ ~settings.scrobblingEnabled
    /\ closure = settings
    /\ player.isPlaying
    /\ audio.src = scrobbleState.track
    /\ CheckScrobbleConditions(scrobbleState, audio.currentTime,
                               audio.duration)
    /\ sends = 0
    /\ \A r \in inflight : r.kind # "scrobble"

\* The scrobble request sent for the track start the ref holds has not been
\* answered.
OwnScrobbleInFlight ==
    \E r \in inflight :
        r.kind = "scrobble" /\ r.timestamp = scrobbleState.startTime

\* C32: no scrobble request is sent while the one sent for the same track
\* start is unanswered.
C32_OneScrobblePerStart ==
    [][~(sends' = sends + 1 /\ OwnScrobbleInFlight)]_vars

\* C33: the ref is marked as scrobbled only when a scrobble request was sent
\* for the track start it holds: the response to a request of an earlier
\* start does not mark it.
C33_MarkedByOwnRequest ==
    scrobbleState.hasScrobbled => sends >= 1

(***************************************************************************)
(* SpecFetchAll: the loop of getAllTracksFromServer on its own, against a   *)
(* remote service whose catalog may change between two page requests (a    *)
(* rescan on the server side).  populateCache and syncCache always pass an *)
(* onProgress callback.                                                    *)
(***************************************************************************)
T5a == Track(5, S_Jazz, S_Queen, S_Opera, S_Rock, S_Queen, 1)

\* The catalogs the remote service may hold when a page request arrives:
\* nothing, or the first tracks of a library of five in one of two orders.
ServerCatalogs ==
    {SubSeq(library, 1, k) :
        library \in {<<T1a, T2a, T3a, T4a, T5a>>, <<T5a, T4a, T3a, T2a, T1b>>},
        k \in 0..5}

\* while (hasMore) { this.getTracks({ page, per_page: perPage })
SendPageRequest ==
    /\ fa.pc = "while"
    /\ fa.hasMore
    /\ fa' = [fa EXCEPT !.pc = "await",
                        !.events = Append(@, [kind |-> "request",
                                              page |-> fa.page])]

\* The loop that goes on while page <= response.total_pages.
PageResponseOneMore ==
    /\ fa.pc = "await"
    /\ \E catalog \in ServerCatalogs :
          LET response == ServerListTracks(catalog, fa.page, perPage)
              progress == [kind |-> "progress", page |-> fa.page,
                           total |-> response.total_pages]
          IN  fa' = [fa EXCEPT
                        !.pc = "while",
                        !.allTracks = @ \o response.tracks,
                        !.totalPages = response.total_pages,
                        !.hasMore = fa.page <= response.total_pages,
                        !.events = @ \o <<[kind |-> "response",
                                           body |-> response], progress>>,
                        !.page = @ + 1]

\* The response arrives from a service holding catalog:
\* allTracks.push(...response.tracks), totalPages and hasMore are set from
\* it, onProgress(page, totalPages) is called, page++.
PageResponseFrom(catalog) ==
    /\ fa.pc = "await"
    /\ LET response == ServerListTracks(catalog, fa.page, perPage)
           progress == [kind |-> "progress", page |-> fa.page,
                        total |-> response.total_pages]
       IN  fa' = [fa EXCEPT
                     !.pc = "while",
                     !.allTracks = @ \o response.tracks,
                     !.totalPages = response.total_pages,
                     !.hasMore = fa.page < response.total_pages,
                     !.events = @ \o <<[kind |-> "response",
                                        body |-> response], progress>>,
                     !.page = @ + 1]

PageResponse == \E catalog \in ServerCatalogs : PageResponseFrom(catalog)

\* The request fails: the await throws and the call is rejected.
PageRequestFails ==
    /\ fa.pc = "await"
    /\ fa' = [fa EXCEPT !.pc = "rejected"]

\* hasMore is false: return allTracks
ReturnAllTracks ==
    /\ fa.pc = "while"
    /\ ~fa.hasMore
    /\ fa' = [fa EXCEPT !.pc = "returned", !.returned = fa.allTracks]

NextFetchAll ==
    \/ SendPageRequest
          /\ UNCHANGED <<storeVars, pageVars, apiVars, valueVars,
                         scrobbleVars, filterVars, uiVars>>
    \/ PageResponse
          /\ UNCHANGED <<storeVars, pageVars, apiVars, valueVars,
                         scrobbleVars, filterVars, uiVars>>
    \/ PageRequestFails
          /\ UNCHANGED <<storeVars, pageVars, apiVars, valueVars,
                         scrobbleVars, filterVars, uiVars>>
    \/ ReturnAllTracks
          /\ UNCHANGED <<storeVars, pageVars, apiVars, valueVars,
                         scrobbleVars, filterVars, uiVars>>

InitFetchAll ==
    /\ StoreIdle
    /\ PageIdle
    /\ ApiIdle
    /\ ValuesIdle
    /\ ScrobbleIdle
    /\ FetchIdle
    /\ FilterIdle
    /\ UiIdle

SpecFetchAll == InitFetchAll /\ [][NextFetchAll]_vars

\* The events of one kind, in the order they happened.
EventsOf(kind) == SelectSeq(fa.events, LAMBDA e : e.kind = kind)

RECURSIVE ConcatTracks(_)
ConcatTracks(responses) ==
    IF responses = <<>> THEN <<>>
    ELSE Head(responses).body.tracks \o ConcatTracks(Tail(responses))

\* C19: the pages requested are 1, 2, ..., n, each once and in this order;
\* a call that ended made at least one request; every response but the
\* last has a page number below its total_pages and the last response of a
\* call that returned has not; the array returned is the responses' tracks
\* concatenated in page order; and each response is followed, before the
\* next request, by exactly one onProgress call with that page number (and
\* the response's total_pages).
C19_PagesInOrder ==
    LET requests == EventsOf("request")
        responses == EventsOf("response")
        n == Len(responses)
    IN  /\ \A i \in 1..Len(requests) : requests[i].page = i
        /\ \A i \in 1..n : responses[i].body.page = i
        /\ fa.pc \in {"returned", "rejected"} => Len(requests) >= 1
        /\ \A i \in 1..Len(fa.events) :
              LET e == fa.events[i]
              IN  /\ e.kind = "request" =>
                        (i > 1 => fa.events[i - 1].kind = "progress")
                  /\ e.kind = "response" =>
                        /\ fa.events[i - 1] = [kind |-> "request",
                                               page |-> e.body.page]
                        /\ fa.events[i + 1] =
                              [kind |-> "progress", page |-> e.body.page,
                               total |-> e.body.total_pages]
                  /\ e.kind = "progress" => fa.events[i - 1].kind = "response"
        /\ \A i \in 1..n :
              (i < n \/ Len(requests) > n)
                  => responses[i].body.page < responses[i].body.total_pages
        /\ fa.pc = "returned" =>
              /\ n = Len(requests)
              /\ ~(responses[n].body.page < responses[n].body.total_pages)
              /\ fa.returned = ConcatTracks(responses)

\* A call that returned after three pages, the catalog having changed
\* between the requests.
C19_Witness ==
    /\ fa.pc = "returned"
    /\ Len(EventsOf("request")) = 3
    /\ Len(fa.returned) > 0
    /\ \E i, j \in 1..3 :
          EventsOf("response")[i].body.total_pages
              # EventsOf("response")[j].body.total_pages

(***************************************************************************)
(* SpecFilter: getTracksByFilter called on a populated store, with the     *)
(* index lookup and the full scan each succeeding or throwing.             *)
(***************************************************************************)
S_o == <<"o">>
S_pE == <<"p", "E">>
S_bb == <<"b", "b">>
S_1 == <<"1">>
S_01 == <<"0", "1">>
S_3 == <<"3">>

\* The filters passed to getTracksByFilter.
FilterArgs ==
    {<<>>,
     [artist |-> S_Queen],
     [artist |-> S_Abba],
     [genre |-> S_Jazz],
     [title |-> S_o],
     [id |-> S_1],
     [id |-> S_01],
     [modified |-> S_1],
     [artist |-> S_Queen, album |-> S_pE],
     [artist |-> S_Abba, album |-> S_Empty],
     [artist |-> S_bb, id |-> S_3],
     [genre |-> S_Jazz, modified |-> S_1],
     [artist |-> S_Queen, album |-> S_pE, genre |-> S_Rock]}

\* filterEntries.length === 1 and the key is one of artist, album, genre,
\* album_artist: the index lookup is tried.
IndexEligible(filters) ==
    /\ Cardinality(DOMAIN filters) = 1
    /\ DOMAIN filters \subseteq ExactIndexFields

InitFilter ==
    /\ db \in {StoreTracks(EmptyDb, tracks) : tracks \in ServerLists}
    /\ last = NoOp
    /\ written = [i \in Ids |-> NoTrack]
    /\ PageIdle
    /\ ApiIdle
    /\ ValuesIdle
    /\ ScrobbleIdle
    /\ FetchIdle
    /\ FilterIdle
    /\ UiIdle

\* getTracksByFilter in which a failed index lookup rejects the call.
DoGetTracksByFilterLookupEscapes ==
    \E filters \in FilterArgs, indexThrows, scanThrows \in BOOLEAN :
        /\ indexThrows => IndexEligible(filters)
        /\ ft' = IF IndexEligible(filters) /\ ~indexThrows
                 THEN [filters |-> filters, indexThrows |-> FALSE,
                       scanThrows |-> FALSE, kind |-> "ok",
                       tracks |-> GetTracksByFilter(db, filters, FALSE)]
                 ELSE IF scanThrows \/ indexThrows
                 THEN [filters |-> filters, indexThrows |-> indexThrows,
                       scanThrows |-> scanThrows, kind |-> "rejected",
                       tracks |-> <<>>]
                 ELSE [filters |-> filters, indexThrows |-> indexThrows,
                       scanThrows |-> FALSE, kind |-> "ok",
                       tracks |-> GetTracksByFilter(db, filters,
                                                    indexThrows)]

\* getTracksByFilter(filters): the index lookup, when one is tried, answers
\* or throws into the catch block; the scan that follows answers, or its
\* getAllTracks rejects and with it the call.
DoGetTracksByFilter ==
    \E filters \in FilterArgs, indexThrows, scanThrows \in BOOLEAN :
        /\ indexThrows => IndexEligible(filters)
        /\ ft' = IF IndexEligible(filters) /\ ~indexThrows
                 THEN [filters |-> filters, indexThrows |-> FALSE,
                       scanThrows |-> FALSE, kind |-> "ok",
                       tracks |-> GetTracksByFilter(db, filters, FALSE)]
                 ELSE IF scanThrows
                 THEN [filters |-> filters, indexThrows |-> indexThrows,
                       scanThrows |-> TRUE, kind |-> "rejected",
                       tracks |-> <<>>]
                 ELSE [filters |-> filters, indexThrows |-> indexThrows,
                       scanThrows |-> FALSE, kind |-> "ok",
                       tracks |-> GetTracksByFilter(db, filters,
                                                    indexThrows)]

NextFilter ==
    DoGetTracksByFilter
        /\ UNCHANGED <<storeVars, pageVars, apiVars, valueVars, scrobbleVars,
                       fetchVars, uiVars>>

SpecFilter == InitFilter /\ [][NextFilter]_vars

\* v occurs in s at some offset, letters compared without regard to case.
ContainsIgnoringCase(s, v) ==
    \E i \in 0..(Len(s) - Len(v)) :
        \A j \in 1..Len(v) : ToLowerChar(s[i + j]) = ToLowerChar(v[j])

C23_LookupErrorSwallowed ==
    /\ ft.kind = "rejected" => ft.scanThrows
    /\ (ft.indexThrows /\ ~ft.scanThrows) =>
          /\ ft.kind = "ok"
          /\ ft.tracks = SelectSeq(GetAllTracks(db),
                             LAMBDA t : FilterMatches(t, ft.filters))

\* An index lookup that threw, answered by the scan with a non-empty list.
C23_Witness ==
    /\ ft.indexThrows
    /\ ft.kind = "ok"
    /\ ft.tracks # <<>>

\* The filters without the entry of key k.
WithoutKey(filters, k) == [x \in DOMAIN filters \ {k} |-> filters[x]]

\* C30: every track a call returns is also returned for the filters with
\* any one entry taken away.
C30_MoreFieldsFewerTracks ==
    ft.kind = "ok" =>
        \A k \in DOMAIN ft.filters :
            Range(ft.tracks) \subseteq
                Range(GetTracksByFilter(db, WithoutKey(ft.filters, k),
                                        FALSE))

\* C30 where the filters with the entry taken away are resolved by the
\* full scan too.
C30_ScanMoreFieldsFewerTracks ==
    ft.kind = "ok" =>
        \A k \in DOMAIN ft.filters :
            ~IndexEligible(WithoutKey(ft.filters, k)) =>
                Range(ft.tracks) \subseteq
                    Range(GetTracksByFilter(db, WithoutKey(ft.filters, k),
                                            FALSE))

(***************************************************************************)
(* SpecSyncFetch: one syncCache whose paginated fetch runs while the       *)
(* remote library changes.  The remote service lists its tracks by id and  *)
(* cuts pages by offset, as the page, per_page and total_pages of its      *)
(* responses say; a track is added to or deleted from it at any moment of  *)
(* the fetch.  The cache starts as a copy of the library.  fa.steady is    *)
(* the set of ids on the server ever since the sync was called, and        *)
(* fa.changed tells whether the library changed.                           *)
(***************************************************************************)
Library == <<T1a, T2a, T3a, T4a>>

InitSyncFetch ==
    /\ server \in {SortById(S) : S \in SUBSET Range(Library)}
    /\ db = StoreTracks(EmptyDb, server)
    /\ last = NoOp
    /\ written = [i \in Ids |-> NoTrack]
    /\ PageIdle
    /\ pc = [p \in Callers |-> "idle"]
    /\ call = [p \in Callers |-> NoCall]
    /\ loc = [p \in Callers |-> NoLoc]
    /\ res = [p \in Callers |-> NoResult]
    /\ obs = [p \in Callers |-> NoObs]
    /\ faults = 0
    /\ started = 0
    /\ rescanned = FALSE
    /\ populated = FALSE
    /\ ValuesIdle
    /\ ScrobbleIdle
    /\ fa = [pc |-> "while", page |-> 1, hasMore |-> TRUE, totalPages |-> 1,
             allTracks |-> <<>>, returned |-> <<>>, events |-> <<>>,
             steady |-> IdsOf(Range(server)), changed |-> FALSE]
    /\ FilterIdle
    /\ UiIdle

\* A track appears in the remote library while the fetch runs.
ServerAdd ==
    /\ fa.pc \in {"while", "await"}
    /\ \E t \in Range(Library) :
          /\ t.id \notin IdsOf(Range(server))
          /\ server' = SortById(Range(server) \cup {t})
    /\ fa' = [fa EXCEPT !.changed = TRUE]
    /\ UNCHANGED <<db, last>>

\* A track disappears from the remote library while the fetch runs.
ServerDelete ==
    /\ fa.pc \in {"while", "await"}
    /\ \E t \in Range(server) :
          /\ server' = SortById(Range(server) \ {t})
          /\ fa' = [fa EXCEPT !.changed = TRUE, !.steady = @ \ {t.id}]
    /\ UNCHANGED <<db, last>>

\* syncWithServer once the fetch has returned: the read of the cache, the
\* put and the remove.
SyncFetched ==
    /\ fa.pc = "returned"
    /\ LET diff == SyncDiff(fa.returned, GetAllTracks(db))
       IN  /\ db' = SyncRemove(SyncPut(db, diff), diff)
           /\ last' = [op |-> "syncWithServer", server |-> fa.returned,
                       before |-> db.recs, counts |-> SyncCounts(diff),
                       writes |-> SyncWrites(diff), retry |-> FALSE]
    /\ fa' = [fa EXCEPT !.pc = "synced"]
    /\ UNCHANGED server

NextSyncFetch ==
    \/ ServerAdd
          /\ UNCHANGED <<written, pageVars, pc, call, loc, res, obs, faults,
                         started, rescanned, populated, valueVars,
                         scrobbleVars,
                         filterVars, uiVars>>
    \/ ServerDelete
          /\ UNCHANGED <<written, pageVars, pc, call, loc, res, obs, faults,
                         started, rescanned, populated, valueVars,
                         scrobbleVars,
                         filterVars, uiVars>>
    \/ SendPageRequest
          /\ UNCHANGED <<storeVars, pageVars, apiVars, valueVars,
                         scrobbleVars, filterVars, uiVars>>
    \/ PageResponseFrom(server)
          /\ UNCHANGED <<storeVars, pageVars, apiVars, valueVars,
                         scrobbleVars, filterVars, uiVars>>
    \/ PageRequestFails
          /\ UNCHANGED <<storeVars, pageVars, apiVars, valueVars,
                         scrobbleVars, filterVars, uiVars>>
    \/ ReturnAllTracks
          /\ UNCHANGED <<storeVars, pageVars, apiVars, valueVars,
                         scrobbleVars, filterVars, uiVars>>
    \/ SyncFetched
          /\ UNCHANGED <<written, pageVars, pc, call, loc, res, obs, faults,
                         started, rescanned, populated, valueVars,
                         scrobbleVars,
                         filterVars, uiVars>>

SpecSyncFetch == InitSyncFetch /\ [][NextSyncFetch]_vars

\* The array holds no id twice.
NoRepeatedId(tracks) ==
    \A i, j \in 1..Len(tracks) : tracks[i].id = tracks[j].id => i = j

\* C27: the list the fetch returned holds every id that was on the server
\* throughout and no id twice, and the sync removed no cached track whose
\* id was on the server throughout.
C27_SteadyTracksKept ==
    /\ fa.pc \in {"returned", "synced"} =>
          /\ fa.steady \subseteq IdsOf(Range(fa.returned))
          /\ NoRepeatedId(fa.returned)
    /\ fa.pc = "synced" =>
          \A r \in last.before : r.id \in fa.steady => r.id \in IdsOf(db.recs)

\* C27 for a library that did not change during the fetch.
C27_UnchangedLibrary ==
    ~fa.changed => C27_SteadyTracksKept

(***************************************************************************)
(* SpecView: the library page.  handleSearch, handleFilter and the cache   *)
(* mode toggle issue fetchTracks / loadAllTracks calls; each call awaits   *)
(* the ApiService and sets the tracks when its promise settles, in         *)
(* whatever order the promises settle.                                     *)
(***************************************************************************)
MaxIssued == 3

\* The texts typed into the search box and the filters picked in the
\* library browser.
SearchTexts == {S_Empty, S_Queen, S_Jazz}
FilterPicks == {<<"artist", S_Abba>>, <<"genre", S_Rock>>}

\* The store of a populated cache.
CatalogDb == StoreTracks(EmptyDb, Catalog)

\* data.tracks of the call: page 1 of the search when the trimmed query is
\* not empty, of the filtered or the whole list otherwise; the page is
\* longer than the catalog.
ResultOf(c) ==
    IF Trim(c.query) # <<>>
    THEN SearchTracks(CatalogDb, Trim(c.query))
    ELSE IF DOMAIN c.filters # {}
         THEN GetTracksByFilter(CatalogDb, c.filters, FALSE)
         ELSE GetAllTracks(CatalogDb)

\* The call a handler makes: loadAllTracks in cache mode, fetchTracks(1,
\* query, false, filters) otherwise, which empties the list at once.
IssueCall(view, query, filters) ==
    LET c == [seq |-> view.issued + 1,
              fn |-> IF view.useCache THEN "loadAllTracks"
                     ELSE "fetchTracks",
              query |-> query, filters |-> filters]
    IN  [view EXCEPT !.calls = @ \cup {c},
                     !.issued = @ + 1,
                     !.tracks = IF view.useCache THEN @ ELSE <<>>,
                     !.shownOf = IF view.useCache THEN @ ELSE c.seq,
                     !.latestTracks = <<>>]

\* handleSearch, with the text typed into the box; the filters are the
\* active ones.
HandleSearch ==
    /\ lv.issued < MaxIssued
    /\ \E text \in SearchTexts :
        lv' = IssueCall([lv EXCEPT !.searchQuery = text], text,
                        lv.activeFilters)

\* handleFilter(type, value)
HandleFilter ==
    /\ lv.issued < MaxIssued
    /\ \E pick \in FilterPicks :
        LET newFilters ==
                [k \in DOMAIN lv.activeFilters \cup {pick[1]} |->
                    IF k = pick[1] THEN pick[2] ELSE lv.activeFilters[k]]
        IN  lv' = IssueCall([lv EXCEPT !.activeFilters = newFilters,
                                      !.searchQuery = <<>>],
                            <<>>, newFilters)

\* toggleCacheMode and the effect on useCache: loadAllTracks() or
\* fetchTracks(1), with no query and the active filters.
ToggleCacheMode ==
    /\ lv.issued < MaxIssued
    /\ lv' = IssueCall([lv EXCEPT !.useCache = ~@], <<>>, lv.activeFilters)

\* The promise of a call resolves: setTracks(data.tracks).
CallResolves ==
    \E c \in lv.calls :
        lv' = [lv EXCEPT !.calls = @ \ {c},
                         !.tracks = ResultOf(c),
                         !.shownOf = c.seq,
                         !.latestTracks = IF c.seq = lv.issued
                                          THEN ResultOf(c) ELSE @]

\* The promise of a call rejects: the catch block, setTracks([]).
CallRejects ==
    \E c \in lv.calls :
        lv' = [lv EXCEPT !.calls = @ \ {c},
                         !.tracks = <<>>,
                         !.shownOf = c.seq,
                         !.latestTracks = IF c.seq = lv.issued
                                          THEN <<>> ELSE @]

\* The page after its first render and the effect on useCache:
\* loadAllTracks() is in flight.
InitView ==
    /\ lv = IssueCall(InitialView, <<>>, <<>>)
    /\ qs = initialState
    /\ au = InitialAudio
    /\ StoreIdle
    /\ PageIdle
    /\ ApiIdle
    /\ ValuesIdle
    /\ ScrobbleIdle
    /\ FetchIdle
    /\ FilterIdle

NextView ==
    \/ HandleSearch /\ UNCHANGED <<storeVars, pageVars, apiVars, valueVars,
                                   scrobbleVars, fetchVars, filterVars,
                                   qs, au>>
    \/ HandleFilter /\ UNCHANGED <<storeVars, pageVars, apiVars, valueVars,
                                   scrobbleVars, fetchVars, filterVars,
                                   qs, au>>
    \/ ToggleCacheMode /\ UNCHANGED <<storeVars, pageVars, apiVars,
                                      valueVars, scrobbleVars, fetchVars,
                                      filterVars, qs, au>>
    \/ CallResolves /\ UNCHANGED <<storeVars, pageVars, apiVars, valueVars,
                                   scrobbleVars, fetchVars, filterVars,
                                   qs, au>>
    \/ CallRejects /\ UNCHANGED <<storeVars, pageVars, apiVars, valueVars,
                                  scrobbleVars, fetchVars, filterVars,
                                  qs, au>>

SpecView == InitView /\ [][NextView]_vars

\* The call issued last has not settled yet.
LatestInFlight == \E c \in lv.calls : c.seq = lv.issued

\* C31: once the call issued last has settled, the tracks shown are the
\* ones that call set (the result of its query, or none when it failed),
\* whichever calls settled after it.
C31_ShownBelongsToLatest ==
    ~LatestInFlight => lv.tracks = lv.latestTracks

(***************************************************************************)
(* SpecQueue: the queue of the audio player.  The functions of             *)
(* AudioPlayerProvider read the state of the render that created them and  *)
(* dispatch actions, which the reducer applies in order to the state of    *)
(* the moment.  A function called from an event handler belongs to the     *)
(* current render; play(track) called by the timeout of next and previous  *)
(* belongs to the render that set the timeout.                             *)
(***************************************************************************)
MaxQueue == 3
MaxDelayed == 1

\* The tracks of the library table, by id, and the lists handed to
\* addAllToQueue with the index of the row clicked.
TrackIds == {1, 2, 3}
TrackLists == {<<1, 2, 3>>, <<2, 1>>, <<3>>}

\* Array.prototype.findIndex(t => t.id === id): -1 when there is none.
FindIndex(tracks, id) ==
    IF \E i \in 1..Len(tracks) : tracks[i] = id
    THEN (CHOOSE i \in 1..Len(tracks) :
              /\ tracks[i] = id
              /\ \A j \in 1..(i - 1) : tracks[j] # id) - 1
    ELSE -1

\* array[index], with 0 (no track) where JavaScript gives undefined.
At(tracks, index) ==
    IF index + 1 \in 1..Len(tracks) THEN tracks[index + 1] ELSE 0

\* queue.filter((_, index) => index !== payload)
FilterOut(queue, payload) ==
    [i \in 1..(Len(queue) - (IF payload + 1 \in 1..Len(queue)
                             THEN 1 ELSE 0)) |->
        IF i < payload + 1 THEN queue[i] ELSE queue[i + 1]]

audioPlayerReducer(state, action) ==
    CASE action.type = "SET_CURRENT_TRACK" ->
             [state EXCEPT !.currentTrack = action.payload]
      [] action.type = "SET_PLAYING" ->
             [state EXCEPT !.isPlaying = action.payload]
      [] action.type = "SET_QUEUE" ->
             [state EXCEPT !.queue = action.payload]
      [] action.type = "SET_CURRENT_INDEX" ->
             [state EXCEPT !.currentIndex = action.payload]
      [] action.type = "ADD_TO_QUEUE" ->
             [state EXCEPT !.queue = Append(@, action.payload)]
      [] action.type = "REMOVE_FROM_QUEUE" ->
             LET newQueue == FilterOut(state.queue, action.payload)
                 newIndex ==
                     IF action.payload < state.currentIndex
                     THEN state.currentIndex - 1
                     ELSE IF action.payload = state.currentIndex
                          THEN -1
                          ELSE state.currentIndex
             IN  [state EXCEPT
                     !.queue = newQueue,
                     !.currentIndex = newIndex,
                     !.currentTrack = IF newIndex >= 0
                                      THEN At(newQueue, newIndex) ELSE 0]
      [] action.type = "CLEAR_QUEUE" ->
             [state EXCEPT !.queue = <<>>, !.currentIndex = -1,
                           !.currentTrack = 0, !.isPlaying = FALSE]
      [] action.type = "TOGGLE_REPEAT" ->
             [state EXCEPT !.repeat =
                 CASE @ = "none" -> "one" [] @ = "one" -> "all"
                   [] OTHER -> "none"]
      [] action.type = "TOGGLE_SHUFFLE" ->
             [state EXCEPT !.shuffle = ~@]
      [] action.type = "SET_ERROR" ->
             [state EXCEPT !.error = action.payload]
      [] action.type = "SET_LIBRARY_TRACKS" ->
             [state EXCEPT !.libraryTracks = action.payload]
      [] action.type = "SET_LIBRARY_INDEX" ->
             [state EXCEPT !.libraryIndex = action.payload]
      [] OTHER -> state

Act(type, payload) == [type |-> type, payload |-> payload]

\* The dispatches of one function call, applied in order.
RECURSIVE Dispatch(_, _)
Dispatch(state, actions) ==
    IF actions = <<>> THEN state
    ELSE Dispatch(audioPlayerReducer(state, Head(actions)), Tail(actions))

\* The effect on currentTrack, run with the render that follows: with no
\* track selected it dispatches SET_PLAYING false.
TrackEffect(state) ==
    IF state.currentTrack = 0
    THEN audioPlayerReducer(state, Act("SET_PLAYING", FALSE))
    ELSE state

\* play(track) for a track other than the current one of its render: the
\* actions it dispatches.
PlayNewTrack(c, track) ==
    <<Act("SET_CURRENT_TRACK", track)>>
    \o (IF Len(c.queue) > 0
        THEN IF FindIndex(c.queue, track) = -1
             THEN <<Act("ADD_TO_QUEUE", track),
                    Act("SET_CURRENT_INDEX", Len(c.queue))>>
             ELSE <<Act("SET_CURRENT_INDEX", FindIndex(c.queue, track))>>
        ELSE <<Act("SET_CURRENT_INDEX", -1)>>)
    \o (IF FindIndex(c.libraryTracks, track) >= 0
        THEN <<Act("SET_LIBRARY_INDEX", FindIndex(c.libraryTracks, track))>>
        ELSE <<>>)
    \o <<Act("SET_ERROR", "null"), Act("SET_PLAYING", TRUE)>>

\* getNextTrackIndex: the indexes it can return (one of several under
\* shuffle).
GetNextTrackIndex(c) ==
    IF Len(c.queue) = 0 THEN {-1}
    ELSE IF c.repeat = "one" THEN {c.currentIndex}
    ELSE IF c.shuffle
         THEN LET availableIndices ==
                      (0..(Len(c.queue) - 1)) \ {c.currentIndex}
              IN  IF availableIndices = {}
                  THEN {IF c.repeat = "all" THEN 0 ELSE -1}
                  ELSE availableIndices
    ELSE IF c.currentIndex + 1 >= Len(c.queue)
         THEN {IF c.repeat = "all" THEN 0 ELSE -1}
         ELSE {c.currentIndex + 1}

\* getPreviousTrackIndex
GetPreviousTrackIndex(c) ==
    IF Len(c.queue) = 0 THEN -1
    ELSE IF c.repeat = "one" THEN c.currentIndex
    ELSE IF c.currentIndex - 1 < 0
         THEN IF c.repeat = "all" THEN Len(c.queue) - 1 ELSE -1
         ELSE c.currentIndex - 1

\* A click: the document listener marks the user interaction.
Clicked(a) == [a EXCEPT !.hasUserInteracted = TRUE]

\* setTimeout(() => play(track), 100) of next and previous, when the player
\* was playing and the user has interacted; of the state of its render, play
\* reads currentTrack, queue and libraryTracks.
Schedule(a, c, track) ==
    IF c.isPlaying /\ a.hasUserInteracted
    THEN [a EXCEPT !.delayed = @ \cup
             {[track |-> track,
               state |-> [currentTrack |-> c.currentTrack,
                          queue |-> c.queue,
                          libraryTracks |-> c.libraryTracks]]}]
    ELSE a

\* play() of the current track: depending on the audio element the
\* playback starts (SET_PLAYING true) or fails (SET_PLAYING false).
Resume(state) ==
    {audioPlayerReducer(state, Act("SET_PLAYING", playing)) :
        playing \in BOOLEAN}

\* play(track) from the library table, for a track that is not the current
\* one.
Play ==
    \E track \in TrackIds :
        /\ track # qs.currentTrack
        /\ Len(qs.queue) < MaxQueue
        /\ qs' = TrackEffect(Dispatch(qs, PlayNewTrack(qs, track)))
        /\ au' = [Clicked(au) EXCEPT !.playingIntent = TRUE]

\* pause
Pause ==
    /\ qs.isPlaying
    /\ qs' = audioPlayerReducer(qs, Act("SET_PLAYING", FALSE))
    /\ au' = [Clicked(au) EXCEPT !.playingIntent = FALSE]

\* The fallback of next on the library tracks when the queue has no next
\* entry: the actions it dispatches (those of stop when there is none).
NextInLibrary(c, a) ==
    LET currentLibraryIndex == FindIndex(c.libraryTracks, c.currentTrack)
        nextLibraryIndex ==
            IF c.currentTrack # 0
            THEN IF currentLibraryIndex >= 0
                 THEN currentLibraryIndex + 1
                 ELSE c.libraryIndex + 1
            ELSE IF c.libraryIndex >= 0 THEN c.libraryIndex + 1 ELSE 0
    IN  IF Len(c.libraryTracks) > 0
           /\ nextLibraryIndex < Len(c.libraryTracks)
        THEN <<Act("SET_LIBRARY_INDEX", nextLibraryIndex),
               Act("SET_CURRENT_TRACK",
                   At(c.libraryTracks, nextLibraryIndex))>>
             \o (IF c.isPlaying /\ a.hasUserInteracted
                 THEN <<Act("SET_PLAYING", TRUE)>> ELSE <<>>)
        ELSE <<Act("SET_PLAYING", FALSE)>>

\* next
NextTrack ==
    \E nextIndex \in GetNextTrackIndex(qs) :
        LET a == Clicked(au)
        IN  IF nextIndex >= 0 /\ At(qs.queue, nextIndex) # 0
            THEN /\ qs' = TrackEffect(Dispatch(qs,
                        <<Act("SET_CURRENT_INDEX", nextIndex),
                          Act("SET_CURRENT_TRACK",
                              At(qs.queue, nextIndex))>>))
                 /\ Cardinality(au.delayed) < MaxDelayed
                       \/ ~(qs.isPlaying /\ a.hasUserInteracted)
                 /\ au' = Schedule(a, qs, At(qs.queue, nextIndex))
            ELSE /\ qs' = TrackEffect(Dispatch(qs, NextInLibrary(qs, a)))
                 /\ au' = a

\* The fallback of previous on the library tracks.
PreviousInLibrary(c, a) ==
    LET currentLibraryIndex == FindIndex(c.libraryTracks, c.currentTrack)
        prevLibraryIndex ==
            IF c.currentTrack # 0 /\ currentLibraryIndex >= 0
            THEN currentLibraryIndex - 1
            ELSE c.libraryIndex - 1
    IN  IF Len(c.libraryTracks) > 0 /\ prevLibraryIndex >= 0
        THEN <<Act("SET_LIBRARY_INDEX", prevLibraryIndex),
               Act("SET_CURRENT_TRACK",
                   At(c.libraryTracks, prevLibraryIndex))>>
             \o (IF c.isPlaying /\ a.hasUserInteracted
                 THEN <<Act("SET_PLAYING", TRUE)>> ELSE <<>>)
        ELSE <<>>

\* previous, less than three seconds into the track (later it restarts the
\* track and changes nothing here).
PreviousTrack ==
    LET prevIndex == GetPreviousTrackIndex(qs)
        a == Clicked(au)
    IN  IF prevIndex >= 0 /\ At(qs.queue, prevIndex) # 0
        THEN /\ qs' = TrackEffect(Dispatch(qs,
                    <<Act("SET_CURRENT_INDEX", prevIndex),
                      Act("SET_CURRENT_TRACK", At(qs.queue, prevIndex))>>))
             /\ Cardinality(au.delayed) < MaxDelayed
                   \/ ~(qs.isPlaying /\ a.hasUserInteracted)
             /\ au' = Schedule(a, qs, At(qs.queue, prevIndex))
        ELSE /\ qs' = TrackEffect(Dispatch(qs, PreviousInLibrary(qs, a)))
             /\ au' = a

\* The timeout of next or previous fires: play(track) of the render that
\* set it.  For the track that was current in that render, play resumes
\* the audio and leaves the queue alone.
DelayedPlay ==
    \E d \in au.delayed :
        /\ IF d.track # d.state.currentTrack
           THEN /\ qs' = TrackEffect(Dispatch(qs,
                              PlayNewTrack(d.state, d.track)))
                /\ au' = [au EXCEPT !.delayed = @ \ {d},
                                    !.hasUserInteracted = TRUE,
                                    !.playingIntent = TRUE]
           ELSE /\ qs' \in Resume(qs)
                /\ au' = [au EXCEPT !.delayed = @ \ {d}]

\* addToQueue(track)
AddToQueue ==
    \E track \in TrackIds :
        /\ Len(qs.queue) < MaxQueue
        /\ qs' = IF FindIndex(qs.queue, track) = -1
                 THEN audioPlayerReducer(qs, Act("ADD_TO_QUEUE", track))
                 ELSE qs
        /\ au' = Clicked(au)

\* addAllToQueue(tracks, startIndex), from a row of the table or from the
\* "play all" button.
AddAllToQueue ==
    \E tracks \in TrackLists, startIndex \in 0..(MaxQueue - 1) :
        /\ startIndex < Len(tracks)
        /\ qs' = TrackEffect(Dispatch(qs,
                     <<Act("SET_QUEUE", tracks)>>
                     \o (IF startIndex < Len(tracks)
                         THEN <<Act("SET_CURRENT_INDEX", startIndex),
                                Act("SET_CURRENT_TRACK",
                                    At(tracks, startIndex))>>
                         ELSE <<>>)))
        /\ au' = Clicked(au)

\* removeFromQueue(index), from the row of a queue entry.
RemoveFromQueue(index) ==
    /\ index \in 0..(Len(qs.queue) - 1)
    /\ qs' = TrackEffect(audioPlayerReducer(qs,
                            Act("REMOVE_FROM_QUEUE", index)))
    /\ au' = Clicked(au)

\* clearQueue
ClearPlayerQueue ==
    /\ qs' = TrackEffect(audioPlayerReducer(qs, Act("CLEAR_QUEUE", 0)))
    /\ au' = Clicked(au)

\* playFromQueue(index): the entry becomes the current track and play()
\* resumes the audio.
PlayFromQueue ==
    \E index \in 0..(Len(qs.queue) - 1) :
        /\ qs' \in Resume(TrackEffect(Dispatch(qs,
                     <<Act("SET_CURRENT_INDEX", index),
                       Act("SET_CURRENT_TRACK", At(qs.queue, index))>>)))
        /\ au' = Clicked(au)

\* toggleRepeat, toggleShuffle
ToggleRepeat ==
    /\ qs' = audioPlayerReducer(qs, Act("TOGGLE_REPEAT", 0))
    /\ au' = Clicked(au)

ToggleShuffle ==
    /\ qs' = audioPlayerReducer(qs, Act("TOGGLE_SHUFFLE", 0))
    /\ au' = Clicked(au)

InitQueue ==
    /\ qs = initialState
    /\ au = InitialAudio
    /\ lv = InitialView
    /\ StoreIdle
    /\ PageIdle
    /\ ApiIdle
    /\ ValuesIdle
    /\ ScrobbleIdle
    /\ FetchIdle
    /\ FilterIdle

QueueStep ==
    \/ Play
    \/ Pause
    \/ NextTrack
    \/ PreviousTrack
    \/ DelayedPlay
    \/ AddToQueue
    \/ AddAllToQueue
    \/ \E index \in 0..(MaxQueue - 1) : RemoveFromQueue(index)
    \/ ClearPlayerQueue
    \/ PlayFromQueue
    \/ ToggleRepeat
    \/ ToggleShuffle

NextQueue ==
    QueueStep /\ UNCHANGED <<storeVars, pageVars, apiVars, valueVars,
                             scrobbleVars, fetchVars, filterVars, lv>>

SpecQueue == InitQueue /\ [][NextQueue]_vars

\* C35: currentIndex is -1 or an index of the queue, and when it is an
\* index the current track is the queue entry there.
C35_IndexPointsAtCurrentTrack ==
    /\ qs.currentIndex \in -1..(Len(qs.queue) - 1)
    /\ qs.currentIndex >= 0
          => qs.currentTrack = At(qs.queue, qs.currentIndex)

\* C36: removeFromQueue(index) of an entry that is not the current one (it
\* is not at currentIndex and holds another track than the current one)
\* removes that entry alone and leaves the current track as it was.
C36_RemoveKeepsCurrentTrack ==
    [][\A index \in 0..(MaxQueue - 1) :
          (/\ RemoveFromQueue(index)
           /\ index # qs.currentIndex
           /\ At(qs.queue, index) # qs.currentTrack)
          => /\ qs'.queue = FilterOut(qs.queue, index)
             /\ qs'.currentTrack = qs.currentTrack]_vars

\* C36 for a current track that is in the queue.
C36_RemoveKeepsQueuedTrack ==
    [][\A index \in 0..(MaxQueue - 1) :
          (/\ RemoveFromQueue(index)
           /\ index # qs.currentIndex
           /\ qs.currentIndex >= 0
           /\ qs.currentTrack = At(qs.queue, qs.currentIndex))
          => /\ qs'.queue = FilterOut(qs.queue, index)
             /\ qs'.currentTrack = qs.currentTrack]_vars

(***************************************************************************)
(* The audio element and the retries (audio-player-context.tsx).           *)
(* A step is one task of the event loop: a call of the user, an event of   *)
(* the audio element, a timeout or a promise that settles, with the        *)
(* dispatches it makes, the render that follows, the effects of that       *)
(* render and the catch handlers of the promises the task rejected.  A     *)
(* world w holds the audio element and refs (w.a) and the reducer state    *)
(* (w.s).  The load of a source goes "loading", "metadata" (loadedmetadata *)
(* fired), "canplay" (canplay fired; readyState is then at least           *)
(* HAVE_CURRENT_DATA); loads do not fail.                                  *)
(***************************************************************************)
maxRetries == 3
MaxPromises == 2
AudioTracks == {1, 2}
FailedAfterAttempts ==
    "Audio loading failed after multiple attempts - please try again"
FailedToStart == "Failed to start playback - please try again"
NoAudioSource == "No audio source available"

World(a, s) == [a |-> a, s |-> s]

\* audio.pause(): the pending play() promises are rejected with AbortError.
AudioPause(a) ==
    [a EXCEPT !.paused = TRUE, !.rejected = @ \o a.play, !.play = <<>>]

\* audio.load(): a playing element is paused, its pending promises are
\* rejected, and the source is fetched anew.
AudioLoad(a) == [AudioPause(a) EXCEPT !.load = "loading"]

\* audio.play() awaited by owner: "handler" (handleLoadedMetadata,
\* handleCanPlay), "effect" (the effect on isPlaying) or "play" (play()).
AudioPlay(a, owner) ==
    [a EXCEPT !.paused = FALSE, !.play = Append(@, owner)]

\* retryAudioLoad of a render whose state.currentTrack is currentTrack.
retryAudioLoad(a, currentTrack) ==
    IF currentTrack = 0 THEN a ELSE AudioLoad(a)

\* The retryAudioLoad the handlers of the audio element call: the effect
\* that registers them has no dependencies, so they keep that of the first
\* render.
HandlerRetry == initialState.currentTrack

\* The catch of the play() in handleLoadedMetadata and handleCanPlay, on an
\* AbortError.
CatchHandler(w) ==
    IF w.a.retryCount < maxRetries
    THEN [w EXCEPT !.a.retryCount = @ + 1,
                   !.a.timers = @ \cup {HandlerRetry}]
    ELSE [w EXCEPT !.a.playingIntent = FALSE,
                   !.s = Dispatch(@, <<Act("SET_PLAYING", FALSE),
                                       Act("SET_ERROR",
                                           FailedAfterAttempts)>>)]

\* The catch of the play() in the effect on isPlaying.
CatchEffect(w) ==
    [w EXCEPT !.a.playingIntent = FALSE,
              !.s = Dispatch(@, <<Act("SET_PLAYING", FALSE),
                                  Act("SET_ERROR", FailedToStart)>>)]

\* The catch of the await in play(), on an AbortError; its retryAudioLoad
\* is that of the render of the play() called, render.
CatchPlay(w, render) ==
    IF w.a.retryCount < maxRetries
    THEN [w EXCEPT !.a.retryCount = @ + 1,
                   !.a.timers = @ \cup {render.currentTrack},
                   !.s = audioPlayerReducer(@, Act("SET_PLAYING", FALSE))]
    ELSE [w EXCEPT !.a.playingIntent = FALSE,
                   !.s = Dispatch(@, <<Act("SET_PLAYING", FALSE),
                                       Act("SET_ERROR",
                                           FailedAfterAttempts)>>)]

\* The catch handlers of the rejected promises, in the order of the play()
\* calls.
RECURSIVE Catches(_, _)
Catches(w, render) ==
    IF w.a.rejected = <<>> THEN w
    ELSE LET owner == Head(w.a.rejected)
             rest == [w EXCEPT !.a.rejected = Tail(@)]
         IN  Catches(IF owner = "handler" THEN CatchHandler(rest)
                     ELSE IF owner = "effect" THEN CatchEffect(rest)
                     ELSE CatchPlay(rest, render),
                     render)

\* The effect on currentTrack.
SourceEffect(w) ==
    IF w.s.currentTrack # 0
    THEN IF w.a.src # w.s.currentTrack
         THEN [w EXCEPT !.a = AudioLoad([AudioPause(@) EXCEPT
                                            !.retryCount = 0,
                                            !.src = w.s.currentTrack,
                                            !.aborted = FALSE])]
         ELSE w
    ELSE [w EXCEPT !.a = [AudioPause(@) EXCEPT !.src = 0, !.load = "none"],
                   !.s = audioPlayerReducer(@, Act("SET_PLAYING", FALSE))]

\* The effect on isPlaying and currentTrack.
PlayingEffect(w) ==
    IF w.s.currentTrack = 0 THEN w
    ELSE IF w.a.playingIntent /\ w.a.paused /\ w.a.hasUserInteracted
         THEN IF w.a.load = "canplay"
              THEN [w EXCEPT !.a = AudioPlay(@, "effect")]
              ELSE w
    ELSE IF ~w.a.playingIntent /\ ~w.a.paused
         THEN [w EXCEPT !.a = AudioPause(@)]
    ELSE w

\* What follows the synchronous part of a task that started from the
\* rendered state old: the catch handlers of the promises it rejected, the
\* render of the state dispatched, its effects, and so on until nothing
\* is dispatched any more.
RECURSIVE Rerender(_, _)
Rerender(w, old) ==
    LET caught == Catches(w, old)
        track == IF caught.s.currentTrack # old.currentTrack
                 THEN SourceEffect(caught) ELSE caught
        playing == IF \/ caught.s.currentTrack # old.currentTrack
                      \/ caught.s.isPlaying # old.isPlaying
                   THEN PlayingEffect(track) ELSE track
    IN  IF playing.s = caught.s /\ playing.a.rejected = <<>>
        THEN playing
        ELSE Rerender(playing, caught.s)

Commit(w) ==
    /\ au' = Rerender(w, qs).a
    /\ qs' = Rerender(w, qs).s
    /\ UNCHANGED <<storeVars, pageVars, apiVars, valueVars, scrobbleVars,
                   fetchVars, filterVars, lv>>

\* play(track) for a track other than the current one.
PlayAnother ==
    \E track \in AudioTracks :
        /\ track # qs.currentTrack
        /\ Commit(World([au EXCEPT !.hasUserInteracted = TRUE,
                                   !.playingIntent = TRUE],
                        Dispatch(qs, PlayNewTrack(qs, track))))

\* play() of the current track.
ResumeTrack ==
    /\ Len(au.play) < MaxPromises
    /\ IF au.src = 0
       THEN Commit(World(Clicked(au),
                         audioPlayerReducer(qs, Act("SET_ERROR",
                                                    NoAudioSource))))
       ELSE IF au.load = "canplay"
       THEN Commit(World(AudioPlay([au EXCEPT !.hasUserInteracted = TRUE,
                                              !.playingIntent = TRUE],
                                   "play"),
                         qs))
       ELSE Commit(World([Clicked(au) EXCEPT !.playingIntent = TRUE],
                         audioPlayerReducer(qs, Act("SET_PLAYING", TRUE))))

\* pause()
PauseTrack ==
    /\ au.src # 0
    /\ Commit(World([AudioPause(Clicked(au)) EXCEPT !.playingIntent = FALSE],
                    audioPlayerReducer(qs, Act("SET_PLAYING", FALSE))))

\* What handleLoadedMetadata and handleCanPlay share: with the intent to
\* play, a paused element and a user who has interacted, audio.play().
PlayIfIntended(a) ==
    IF a.playingIntent /\ a.paused /\ a.hasUserInteracted
    THEN AudioPlay(a, "handler")
    ELSE a

\* The loadedmetadata event.
handleLoadedMetadata ==
    /\ au.load = "loading"
    /\ Commit(World(PlayIfIntended([au EXCEPT !.load = "metadata",
                                              !.retryCount = 0]),
                    qs))

\* The canplay event.
handleCanPlay ==
    /\ au.load = "metadata"
    /\ Commit(World(PlayIfIntended([au EXCEPT !.load = "canplay"]), qs))

\* The playback starts: the pending play() promises are fulfilled, and
\* play() goes on after its await.
PlaybackStarts ==
    /\ au.play # <<>>
    /\ au.load = "canplay"
    /\ Commit(World([au EXCEPT !.play = <<>>],
                    IF \E i \in 1..Len(au.play) : au.play[i] = "play"
                    THEN Dispatch(qs, <<Act("SET_PLAYING", TRUE),
                                        Act("SET_ERROR", "null")>>)
                    ELSE qs))

\* The user agent interrupts a play() that has not started the playback:
\* the element is paused and the pending promises are rejected with
\* AbortError.
AbortPlay ==
    /\ au.play # <<>>
    /\ Commit(World([AudioPause(au) EXCEPT !.aborted = TRUE], qs))

\* setTimeout(() => retryAudioLoad(), 1000) runs.
RetryTimeout ==
    \E currentTrack \in au.timers :
        Commit(World(retryAudioLoad([au EXCEPT !.timers =
                                                  @ \ {currentTrack}],
                                    currentTrack),
                     qs))

InitAudio ==
    /\ qs = initialState
    /\ au = InitialAudio
    /\ lv = InitialView
    /\ StoreIdle
    /\ PageIdle
    /\ ApiIdle
    /\ ValuesIdle
    /\ ScrobbleIdle
    /\ FetchIdle
    /\ FilterIdle

NextAudio ==
    \/ PlayAnother
    \/ ResumeTrack
    \/ PauseTrack
    \/ handleLoadedMetadata
    \/ handleCanPlay
    \/ PlaybackStarts
    \/ AbortPlay
    \/ RetryTimeout

SpecAudio == InitAudio /\ [][NextAudio]_vars

\* Nothing is left to happen without the user: the source is loaded, and
\* no play() promise and no retry timeout is pending.
Settled ==
    /\ au.load = "canplay"
    /\ au.play = <<>>
    /\ au.timers = {}

\* C34: after a play attempt on the current track was aborted, once the
\* retries are over the player is not left in the playing state with
\* neither playback nor the 'failed after multiple attempts' error.
C34_AbortEndsInPlaybackOrError ==
    (au.aborted /\ Settled /\ qs.isPlaying)
        => (~au.paused \/ qs.error = FailedAfterAttempts)

====
